---------------------------- MODULE Spec2Model ----------------------------
(***************************************************************************)
(* Crawl-and-extract pipeline of semantix: URL validation/deduplication    *)
(* (crawler/post_processing_urls.py) and the resilient fetcher             *)
(* (crawler/html_downloader.py).                                           *)
(*                                                                         *)
(* Strings are sequences of one-character strings.  Python's None is the   *)
(* value None below, which differs from every string over the alphabet.    *)
(***************************************************************************)
EXTENDS Integers, Sequences, FiniteSets, TLC

VARIABLES
    validation_config,  \* the url_validation section handed to validate_url / process_jobs
    url,                \* validate_url: the argument of the call under study
    validation_result,  \* validate_url: what the call returned
    vpc,                \* validate_url: "call" before the call, "returned" after it
    original_jobs,      \* process_jobs: input_data["jobs"]
    idx,                \* process_jobs: number of jobs the for loop has consumed
    processed_jobs,     \* process_jobs: the output list
    seen_job_ids,       \* process_jobs: the set of accepted job ids
    stats,              \* process_jobs: the five counters
    results,            \* process_jobs: what validate_url returned for jobs 1..idx
    ppc,                \* process_jobs: "loop", "done" (output_data returned), "idle"
    max_retries,        \* download_html: self.max_retries
    attempt,            \* download_html: the loop variable of range(max_retries + 1)
    outcomes,           \* download_html: the outcome of every attempt made so far
    sleeps,             \* download_html: every time.sleep argument so far, in order
    last_exception,     \* download_html: the last recorded failure reason
    returned,           \* download_html: "content" or "None" once returned, else "-"
    fpc,                \* download_html: "attempt", "done", "idle"
    batch_jobs,         \* process_urls_from_json: data["jobs"]
    bi,                 \* process_urls_from_json: the loop variable i (jobs started so far)
    html_files,         \* the HTML dump directory: file name -> [body, by (its writers)]
    success_count,      \* process_urls_from_json: success_count
    failed_count,       \* process_urls_from_json: failed_count
    batch_log,          \* process_urls_from_json: what the loop did for jobs 1..bi
    bpc,                \* process_urls_from_json: "next", "download", "done", "aborted", "idle"
    patterns,           \* HTMLJobExtractor: self.patterns
    page,               \* extract_job_posting: html_content of the call under study
    source_url,         \* extract_job_posting: source_url of the call under study
    lib,                \* extract_job_posting: what the libraries do in the call under study
    extract_result,     \* extract_job_posting: what the call returned
    xpc,                \* extract_job_posting: "call", "returned", "idle"
    json_files,         \* the JSON dump directory: file name -> record
    todo_html,          \* process_html_files: the files of html_files not yet visited
    successful_extractions, \* process_html_files: successful_extractions
    failed_extractions, \* process_html_files: failed_extractions
    extract_log,        \* process_html_files: what the loop did for every visited file
    epc,                \* process_html_files: "loop", "done", "idle"
    pagination_enabled, \* JobUrlSpider: pagination_config["enabled"]
    requested,          \* JobUrlSpider: the page numbers requested so far, in order
    pending,            \* JobUrlSpider: the requests the engine has not answered yet
    job_urls,           \* JobUrlSpider: self.job_urls
    unique_urls,        \* JobUrlSpider: self.unique_urls
    empty_pages_count,  \* JobUrlSpider: self.empty_pages_count
    pages_crawled,      \* JobUrlSpider: self.pages_crawled
    page_log,           \* JobUrlSpider: what parse did for every answered request
    cpc,                \* crawl: "crawl", "closed", "saved", "killed", "idle"
    extraction_results, \* url_fetcher: the global extraction_results
    output_file,        \* url_fetcher main: the content of the output file
    runs,               \* url_fetcher main: what every ended run did to the output file
    home_url,           \* _build_page_url: self.home_url of the call under study
    page_number,        \* _build_page_url: the argument page_number
    page_url,           \* _build_page_url: what the call returned
    upc,                \* page URLs: "call", "returned", "start", "fetching", "idle"
    pay_text,           \* _extract_salary_info: the argument pay_text
    range_pattern,      \* _extract_salary_info: salary_patterns["salary_range_pattern"]
    salary_data,        \* _extract_salary_info: what the call returned, or that it raised
    spc,                \* _extract_salary_info: "call", "returned", "idle"
    scan_title,         \* _determine_*: the argument title
    scan_description,   \* _determine_*: the argument description
    class_patterns,     \* _determine_*: the three keyword tables of self.patterns
    classified,         \* _determine_*: what the three calls returned
    stored,             \* JobPosting.from_dict: the three stored values of data
    loaded,             \* JobPosting.from_dict: the three fields of the record built
    kpc,                \* classification: "call", "returned", "idle"
    command,            \* a command line run: which of the four commands
    config_file,        \* a command line run: the state of the YAML configuration
    input_file,         \* a command line run: the state of the input file or directory
    item_outcomes,      \* a command line run: how each item of the input fares
    exit_status,        \* a command line run: the exit status of the process
    wrote_output,       \* a command line run: an output artifact was written
    mpc,                \* a command line run: "start", "exited", "idle"
    soup,               \* _extract_with_selector: the parsed document
    field_rule,         \* _extract_with_selector: the argument config
    selected,           \* _extract_with_selector: what the call returned
    lpc,                \* _extract_with_selector: "call", "returned", "idle"
    scan_qualifications,\* extract_job_posting: the text of the required qualifications
    site,               \* the career site of a crawl and the pagination settings for it
    href,               \* _extract_jobs_from_page: the attribute value of a candidate link
    stubbed,            \* _extract_jobs_from_page: the link became a stub
    jpc                 \* _extract_jobs_from_page: "call", "returned", "idle"

vars == << validation_config, url, validation_result, vpc,
           original_jobs, idx, processed_jobs, seen_job_ids, stats, results, ppc,
           max_retries, attempt, outcomes, sleeps, last_exception, returned, fpc,
           batch_jobs, bi, html_files, success_count, failed_count, batch_log, bpc,
           patterns, page, source_url, lib, extract_result, xpc,
           json_files, todo_html, successful_extractions, failed_extractions,
           extract_log, epc,
           pagination_enabled, requested, pending, job_urls, unique_urls,
           empty_pages_count, pages_crawled, page_log, cpc,
           extraction_results, output_file, runs,
           home_url, page_number, page_url, upc,
           pay_text, range_pattern, salary_data, spc,
           scan_title, scan_description, class_patterns, classified, stored, loaded, kpc,
           command, config_file, input_file, item_outcomes, exit_status, wrote_output, mpc,
           soup, field_rule, selected, lpc,
           scan_qualifications, site, href, stubbed, jpc >>

validate_vars == << url, validation_result, vpc >>
process_vars  == << original_jobs, idx, processed_jobs, seen_job_ids, stats, results, ppc >>
fetch_vars    == << max_retries, attempt, outcomes, sleeps, last_exception, returned, fpc >>
batch_vars    == << batch_jobs, bi, html_files, success_count, failed_count, batch_log, bpc >>
extract_vars  == << patterns, page, source_url, lib, extract_result, xpc >>
files_vars    == << json_files, todo_html, successful_extractions, failed_extractions,
                    extract_log, epc >>
crawl_vars    == << pagination_enabled, requested, pending, job_urls, unique_urls,
                    empty_pages_count, pages_crawled, page_log, cpc,
                    extraction_results, output_file, runs >>
pageurl_vars  == << home_url, page_number, page_url, upc >>
salary_vars   == << pay_text, range_pattern, salary_data, spc >>
classify_vars == << scan_title, scan_description, scan_qualifications, class_patterns,
                    classified, stored,
                    loaded, kpc >>
command_vars  == << command, config_file, input_file, item_outcomes, exit_status,
                    wrote_output, mpc >>
selector_vars == << soup, field_rule, selected, lpc >>
site_vars     == << site >>
link_vars     == << href, stubbed, jpc >>
(* the single calls studied on their own *)
unit_vars     == << pageurl_vars, salary_vars, classify_vars, command_vars, selector_vars,
                    site_vars, link_vars >>

---------------------------------------------------------------------------
(* Bounds *)

MaxUrlLen == 4
MaxJobs == 3
MaxRetries == 3

---------------------------------------------------------------------------
(* Characters and strings *)

Digits     == {"1", "2"}
LowerChars == {"a", "b"}
UpperChars == {"A", "B"}
Letters    == LowerChars \cup UpperChars
WordChars  == Digits \cup Letters \cup {"_"}          \* \w
Alphabet   == {"/", "1", "a", "B", "-", "?", "."}     \* characters URLs are drawn from

None == << "None" >>
EmptyStr == << >>

RECURSIVE StringsUpTo(_)
StringsUpTo(n) ==
    IF n = 0 THEN { EmptyStr }
    ELSE LET shorter == StringsUpTo(n - 1)
         IN  shorter \cup { Append(s, c) : s \in { t \in shorter : Len(t) = n - 1 }, c \in Alphabet }

ToUpper(c) == IF c = "a" THEN "A" ELSE IF c = "b" THEN "B" ELSE c
ToLower(c) == IF c = "A" THEN "a" ELSE IF c = "B" THEN "b" ELSE c

(* str.replace("-", " ") *)
ReplaceHyphens(s) == [ i \in 1..Len(s) |-> IF s[i] = "-" THEN " " ELSE s[i] ]

(* str.capitalize() in the place of str.title() *)
StrCapitalize(s) ==
    [ i \in 1..Len(s) |-> IF i = 1 THEN ToUpper(s[i]) ELSE ToLower(s[i]) ]

(* str.title(): a cased character is upper-cased when the character before *)
(* it is not cased (or there is none) and lower-cased otherwise; uncased   *)
(* characters are kept.                                                    *)
StrTitle(s) ==
    [ i \in 1..Len(s) |->
        IF s[i] \in Letters
        THEN IF i > 1 /\ s[i - 1] \in Letters THEN ToLower(s[i]) ELSE ToUpper(s[i])
        ELSE s[i] ]

(* Python truthiness of a str-or-None value *)
Truthy(v) == v # None /\ v # EmptyStr

---------------------------------------------------------------------------
(* Regular expressions: the part of Python's re that the patterns use.     *)
(* A pattern is a tree; Match lists the ways the backtracking matcher can  *)
(* match it at a position, in the order the matcher tries them.            *)

Eps         == [ t |-> "eps" ]                 \* the empty pattern ""
Cls(S)      == [ t |-> "cls", s |-> S ]        \* a character class
Lit(c)      == Cls({c})
Dot         == Cls(Alphabet \cup WordChars \cup {" "})
Cat(a, b)   == [ t |-> "cat", a |-> a, b |-> b ]
Alt(a, b)   == [ t |-> "alt", a |-> a, b |-> b ]
Star(a)     == [ t |-> "star", a |-> a ]       \* greedy a*
Plus(a)     == Cat(a, Star(a))                 \* greedy a+
Opt(a)      == Alt(a, Eps)                     \* greedy a?
Grp(n, a)   == [ t |-> "grp", name |-> n, a |-> a ]   \* (?P<n>a)
EndAnchor   == [ t |-> "end" ]                 \* $

RECURSIVE GroupNames(_)
GroupNames(r) ==
    CASE r.t = "cat"  -> GroupNames(r.a) \cup GroupNames(r.b)
      [] r.t = "alt"  -> GroupNames(r.a) \cup GroupNames(r.b)
      [] r.t = "star" -> GroupNames(r.a)
      [] r.t = "grp"  -> {r.name} \cup GroupNames(r.a)
      [] OTHER        -> {}

RECURSIVE Match(_, _, _, _), MatchEach(_, _, _, _)
(* Every <<next position, groups>> with which r matches s from position i, *)
(* best first.                                                             *)
Match(r, s, i, caps) ==
    CASE r.t = "eps"  -> << <<i, caps>> >>
      [] r.t = "end"  -> IF i = Len(s) + 1 THEN << <<i, caps>> >> ELSE << >>
      [] r.t = "cls"  -> IF i <= Len(s) /\ s[i] \in r.s THEN << <<i + 1, caps>> >> ELSE << >>
      [] r.t = "cat"  -> MatchEach(r.b, s, Match(r.a, s, i, caps), 1)
      [] r.t = "alt"  -> Match(r.a, s, i, caps) \o Match(r.b, s, i, caps)
      [] r.t = "star" ->
            LET once == Match(r.a, s, i, caps)
                progress == SelectSeq(once, LAMBDA m : m[1] > i)
            IN  MatchEach(r, s, progress, 1) \o << <<i, caps>> >>
      [] r.t = "grp"  ->
            LET inner == Match(r.a, s, i, caps)
            IN  [ k \in 1..Len(inner) |->
                    << inner[k][1],
                       [ inner[k][2] EXCEPT ![r.name] = SubSeq(s, i, inner[k][1] - 1) ] >> ]
(* r continued from each of the matches ms[k..], in order *)
MatchEach(r, s, ms, k) ==
    IF k > Len(ms) THEN << >>
    ELSE Match(r, s, ms[k][1], ms[k][2]) \o MatchEach(r, s, ms, k + 1)

NoGroups(r) == [ n \in GroupNames(r) |-> None ]

(* re.match(pattern, s): the pattern matches at the start of s *)
ReMatches(r, s) == Match(r, s, 1, NoGroups(r))
ReMatch(r, s) == ReMatches(r, s) # << >>
(* match.groupdict() of re.match(pattern, s) *)
GroupDict(r, s) == ReMatches(r, s)[1][2]
(* re.search(pattern, s): the pattern matches somewhere in s *)
ReSearch(r, s) == \E i \in 1..(Len(s) + 1) : Match(r, s, i, NoGroups(r)) # << >>
(* re.fullmatch(pattern, s): the pattern matches all of s; the code never  *)
(* calls it, the properties of validate_url compare re.match with it      *)
ReFullMatch(r, s) ==
    \E k \in 1..Len(ReMatches(r, s)) : ReMatches(r, s)[k][1] = Len(s) + 1

---------------------------------------------------------------------------
(* Python dicts with string keys *)

EmptyDict == [ k \in {} |-> None ]
DictGet(d, k, default) == IF k \in DOMAIN d THEN d[k] ELSE default
DictSet(d, k, v) == [ x \in DOMAIN d \cup {k} |-> IF x = k THEN v ELSE d[x] ]

---------------------------------------------------------------------------
(* validate_url *)

NoneResult == [ is_none |-> TRUE, data |-> EmptyDict ]
DictResult(d) == [ is_none |-> FALSE, data |-> d ]

(* lines 72-77: the job_title clean-up *)
CleanJobTitle(extracted_data) ==
    IF "job_title" \in DOMAIN extracted_data /\ Truthy(extracted_data["job_title"])
    THEN [ extracted_data EXCEPT !["job_title"] = StrTitle(ReplaceHyphens(@)) ]
    ELSE extracted_data

(* lines 79-83: a listed field that is not a key of the dict becomes "" *)
RECURSIVE EnsureFields(_, _, _)
EnsureFields(extracted_data, fields, k) ==
    IF k > Len(fields) THEN extracted_data
    ELSE EnsureFields(
            IF fields[k] \notin DOMAIN extracted_data
            THEN DictSet(extracted_data, fields[k], EmptyStr)
            ELSE extracted_data,
            fields, k + 1)

(* re.match in the place of re.search for the invalid patterns *)
MatchesInvalidPatternAtStart(u, config) ==
    \E p \in 1..Len(config.invalid_patterns) : ReMatch(config.invalid_patterns[p], u)

(* lines 55-58: some invalid pattern is found in the URL *)
MatchesInvalidPattern(u, config) ==
    \E p \in 1..Len(config.invalid_patterns) : ReSearch(config.invalid_patterns[p], u)

(* re.search in the place of re.match for the valid pattern *)
ValidMatchSearch(valid_pattern, u) ==
    LET starts == { i \in 1..(Len(u) + 1) : Match(valid_pattern, u, i, NoGroups(valid_pattern)) # << >> }
    IN  IF starts = {} THEN << >>
        ELSE Match(valid_pattern, u, CHOOSE i \in starts : \A j \in starts : i <= j,
                   NoGroups(valid_pattern))

(* line 65: the matches of the valid pattern, the first being re.match's *)
ValidMatch(valid_pattern, u) == ReMatches(valid_pattern, u)

(* validate_url that rejects a URL the running batch has validated before *)
validate_url_once(u, config) ==
    IF u = EmptyStr THEN NoneResult
    ELSE IF \E k \in 1..idx : DictGet(original_jobs[k], "url", EmptyStr) = u THEN NoneResult
    ELSE IF MatchesInvalidPattern(u, config) THEN NoneResult
    ELSE IF config.valid_pattern = Eps THEN NoneResult
    ELSE LET match == ValidMatch(config.valid_pattern, u)
         IN  IF match = << >> THEN NoneResult
             ELSE DictResult(
                    EnsureFields(CleanJobTitle(match[1][2]), config.extracted_fields, 1))

validate_url(u, config) ==
    IF u = EmptyStr THEN NoneResult
    ELSE IF MatchesInvalidPattern(u, config) THEN NoneResult
    ELSE IF config.valid_pattern = Eps THEN NoneResult
    ELSE LET match == ValidMatch(config.valid_pattern, u)
         IN  IF match = << >> THEN NoneResult
             ELSE DictResult(
                    EnsureFields(CleanJobTitle(match[1][2]), config.extracted_fields, 1))

---------------------------------------------------------------------------
(* Validation configurations *)

JobIdGroup    == Grp("job_id", Plus(Cls(Digits)))                   \* (?P<job_id>\d+)
JobTitleGroup == Grp("job_title", Plus(Cls(WordChars \cup {"-"})))  \* (?P<job_title>[\w-]+)
AnyPrefix     == Cat(Star(Dot), Lit("/"))                           \* .*/

AllFields == << "job_id", "team", "job_title" >>

\* valid: .*/(?P<job_id>\d+)/(?P<job_title>[\w-]+)   invalid: \.
CfgScenario ==
    [ invalid_patterns |-> << Lit(".") >>,
      valid_pattern    |-> Cat(AnyPrefix, Cat(JobIdGroup, Cat(Lit("/"), JobTitleGroup))),
      extracted_fields |-> AllFields ]
\* valid: .*/(?P<job_id>\d+)(/(?P<job_title>[\w-]+))?   invalid: \. and \?\?
CfgOptionalTitle ==
    [ invalid_patterns |-> << Lit("."), Cat(Lit("?"), Lit("?")) >>,
      valid_pattern    |-> Cat(AnyPrefix, Cat(JobIdGroup, Opt(Cat(Lit("/"), JobTitleGroup)))),
      extracted_fields |-> AllFields ]
\* valid: .*/(?P<job_title>[\w-]+)   no invalid pattern
CfgTitleOnly ==
    [ invalid_patterns |-> << >>,
      valid_pattern    |-> Cat(AnyPrefix, JobTitleGroup),
      extracted_fields |-> << "job_id", "job_title" >> ]
\* valid: /(?P<job_id>\d*)   invalid: -
CfgEmptyId ==
    [ invalid_patterns |-> << Lit("-") >>,
      valid_pattern    |-> Cat(Lit("/"), Grp("job_id", Star(Cls(Digits)))),
      extracted_fields |-> << "job_id" >> ]
\* valid: .*/(?P<job_id>\d+)$   invalid: \.
CfgAnchored ==
    [ invalid_patterns |-> << Lit(".") >>,
      valid_pattern    |-> Cat(AnyPrefix, Cat(JobIdGroup, EndAnchor)),
      extracted_fields |-> << >> ]
\* no valid_pattern configured
CfgNoPattern ==
    [ invalid_patterns |-> << Lit(".") >>,
      valid_pattern    |-> Eps,
      extracted_fields |-> AllFields ]

ValidationConfigs ==
    { CfgScenario, CfgOptionalTitle, CfgTitleOnly, CfgEmptyId, CfgAnchored, CfgNoPattern }

---------------------------------------------------------------------------
(* Idle values of the components a specification does not run *)

ValidateIdle ==
    /\ url = EmptyStr
    /\ validation_result = NoneResult
    /\ vpc = "idle"

ZeroStats ==
    [ original_count |-> 0, valid_count |-> 0, invalid_count |-> 0,
      duplicate_count |-> 0, final_count |-> 0 ]

ProcessIdle ==
    /\ original_jobs = << >>
    /\ idx = 0
    /\ processed_jobs = << >>
    /\ seen_job_ids = {}
    /\ stats = ZeroStats
    /\ results = << >>
    /\ ppc = "idle"

FetchIdle ==
    /\ max_retries = 0
    /\ attempt = 0
    /\ outcomes = << >>
    /\ sleeps = << >>
    /\ last_exception = << "None", 0 >>
    /\ returned = "-"
    /\ fpc = "idle"

NoPatterns == [ basic_info |-> EmptyDict, transformations |-> EmptyDict ]
NoSourceUrl == [ text |-> EmptyStr, query |-> EmptyDict ]
NoRecord == [ is_none |-> TRUE, job_id |-> None, title |-> None, company |-> None ]
QuietLib == [ select_none_raises |-> FALSE, rest_raises |-> FALSE ]

BatchIdle ==
    /\ batch_jobs = << >>
    /\ bi = 0
    /\ html_files = EmptyDict
    /\ success_count = 0
    /\ failed_count = 0
    /\ batch_log = << >>
    /\ bpc = "idle"

ExtractIdle ==
    /\ patterns = NoPatterns
    /\ page = << >>
    /\ source_url = NoSourceUrl
    /\ lib = QuietLib
    /\ extract_result = NoRecord
    /\ xpc = "idle"

FilesIdle ==
    /\ json_files = EmptyDict
    /\ todo_html = {}
    /\ successful_extractions = 0
    /\ failed_extractions = 0
    /\ extract_log = << >>
    /\ epc = "idle"

CrawlIdle ==
    /\ pagination_enabled = FALSE
    /\ requested = << >>
    /\ pending = << >>
    /\ job_urls = << >>
    /\ unique_urls = {}
    /\ empty_pages_count = 0
    /\ pages_crawled = 0
    /\ page_log = << >>
    /\ cpc = "idle"
    /\ extraction_results = [ jobs |-> << >>, total_pages_crawled |-> 0 ]
    /\ output_file = [ exists |-> FALSE, jobs |-> << >>, total_pages_crawled |-> 0 ]
    /\ runs = << >>

PageUrlIdle ==
    /\ home_url = << >>
    /\ page_number = 0
    /\ page_url = << >>
    /\ upc = "idle"

NoSalary == [ raised |-> FALSE, result |-> EmptyDict ]

SalaryIdle ==
    /\ pay_text = << >>
    /\ range_pattern = << >>
    /\ salary_data = NoSalary
    /\ spc = "idle"

(* None in the place of an enumeration member *)
Unset == "None"
Unclassified == [ job_type |-> Unset, experience_level |-> Unset, work_arrangement |-> Unset ]

ClassifyIdle ==
    /\ scan_title = << >>
    /\ scan_description = << >>
    /\ scan_qualifications = << >>
    /\ class_patterns = << >>
    /\ classified = Unclassified
    /\ stored = EmptyDict
    /\ loaded = Unclassified
    /\ kpc = "idle"

CommandIdle ==
    /\ command = ""
    /\ config_file = ""
    /\ input_file = ""
    /\ item_outcomes = << >>
    /\ exit_status = 0
    /\ wrote_output = FALSE
    /\ mpc = "idle"

SelectorIdle ==
    /\ soup = << >>
    /\ field_rule = [ kind |-> "missing" ]
    /\ selected = None
    /\ lpc = "idle"

(* a site about which nothing is assumed *)
NoCount == [ first |-> 0, last |-> 0, total |-> 0 ]
AnySite == [ endless |-> FALSE, result_count |-> NoCount, max_pages |-> 0 ]

SiteIdle == site = AnySite

LinkIdle ==
    /\ href = << >>
    /\ stubbed = FALSE
    /\ jpc = "idle"

(* no single call is under study *)
UnitIdle == /\ PageUrlIdle /\ SalaryIdle /\ ClassifyIdle /\ CommandIdle /\ SelectorIdle
            /\ SiteIdle /\ LinkIdle

(* the components after URL post-processing and fetching are not running *)
DownstreamIdle == BatchIdle /\ ExtractIdle /\ FilesIdle /\ CrawlIdle /\ UnitIdle

---------------------------------------------------------------------------
(* SpecValidate: one call of validate_url on any URL and configuration *)

InitValidate ==
    /\ validation_config \in ValidationConfigs
    /\ url \in StringsUpTo(MaxUrlLen)
    /\ validation_result = NoneResult
    /\ vpc = "call"
    /\ ProcessIdle
    /\ FetchIdle
    /\ DownstreamIdle

ValidateCall ==
    /\ vpc = "call"
    /\ validation_result' = validate_url(url, validation_config)
    /\ vpc' = "returned"
    /\ UNCHANGED << unit_vars, validation_config, url, process_vars, fetch_vars,
                    batch_vars, extract_vars, files_vars, crawl_vars >>

NextValidate == ValidateCall

SpecValidate == InitValidate /\ [][NextValidate]_vars

---------------------------------------------------------------------------
(* process_jobs *)

\* The URLs of the stubs of a batch: no URL, job 1, job 1 with a tracking
\* parameter, job 2, job 1 with two titles, a URL with no job id, a URL
\* with a title only, an asset.
StubUrls ==
    { EmptyStr,
      << "/", "1" >>,
      << "/", "1", "?" >>,
      << "/", "2" >>,
      << "/", "1", "/", "a" >>,
      << "/", "1", "/", "B" >>,
      << "/" >>,
      << "/", "a" >>,
      << "/", "1", "." >> }

(* A stub is a dict; one without the key "url" reads as url "" (line 112) *)
Stubs == { [ k \in {"url"} |-> u ] : u \in StubUrls \ { EmptyStr } } \cup { EmptyDict }

RECURSIVE Batches(_)
Batches(n) ==
    IF n = 0 THEN { << >> }
    ELSE LET shorter == Batches(n - 1)
         IN  shorter \cup { Append(b, j) : b \in { c \in shorter : Len(c) = n - 1 }, j \in Stubs }

(* no duplicate check at all *)
IsDuplicateNever(job_id, seen) == FALSE

(* line 125 *)
IsDuplicate(job_id, seen) == job_id \in seen

(* seen_job_ids.add without the "if job_id" guard *)
RememberJobIdAlways(job_id, seen) == seen \cup { job_id }

(* lines 129-130 *)
RememberJobId(job_id, seen) == IF Truthy(job_id) THEN seen \cup { job_id } ELSE seen

(* valid_count incremented only after the duplicate check *)
CountJobValidOnAccept(st, what) ==
    CASE what = "invalid"   -> [ st EXCEPT !.invalid_count = @ + 1 ]
      [] what = "duplicate" -> [ st EXCEPT !.duplicate_count = @ + 1 ]
      [] what = "accepted"  -> [ st EXCEPT !.valid_count = @ + 1 ]

(* lines 118, 121, 126: the counters one loop iteration changes *)
CountJob(st, what) ==
    CASE what = "invalid"   -> [ st EXCEPT !.invalid_count = @ + 1 ]
      [] what = "duplicate" -> [ st EXCEPT !.valid_count = @ + 1, !.duplicate_count = @ + 1 ]
      [] what = "accepted"  -> [ st EXCEPT !.valid_count = @ + 1 ]

(* lines 133-147; location, department, job_type, posted_date, company,   *)
(* source_url and metadata are copied from the stub the way title is.     *)
ProcessedJob(job, u, result) ==
    [ url |-> u,
      job_id |-> DictGet(result.data, "job_id", EmptyStr),
      team |-> DictGet(result.data, "team", EmptyStr),
      job_title |-> DictGet(result.data, "job_title", EmptyStr),
      title |-> DictGet(job, "title", EmptyStr),
      extracted_fields |-> result.data ]

InitProcess ==
    /\ validation_config \in ValidationConfigs
    /\ original_jobs \in Batches(MaxJobs)
    /\ idx = 0
    /\ processed_jobs = << >>
    /\ seen_job_ids = {}
    /\ stats = [ ZeroStats EXCEPT !.original_count = Len(original_jobs) ]
    /\ results = << >>
    /\ ppc = "loop"
    /\ ValidateIdle
    /\ FetchIdle
    /\ DownstreamIdle

(* One iteration of the for loop, lines 111-149 *)
ProcessJob ==
    /\ ppc = "loop"
    /\ idx < Len(original_jobs)
    /\ LET job == original_jobs[idx + 1]
           u == DictGet(job, "url", EmptyStr)
           result == validate_url(u, validation_config)
           job_id == DictGet(result.data, "job_id", EmptyStr)
       IN  /\ results' = Append(results, result)
           /\ IF result.is_none
              THEN /\ stats' = CountJob(stats, "invalid")
                   /\ UNCHANGED << seen_job_ids, processed_jobs >>
              ELSE IF IsDuplicate(job_id, seen_job_ids)
              THEN /\ stats' = CountJob(stats, "duplicate")
                   /\ UNCHANGED << seen_job_ids, processed_jobs >>
              ELSE /\ stats' = CountJob(stats, "accepted")
                   /\ seen_job_ids' = RememberJobId(job_id, seen_job_ids)
                   /\ processed_jobs' = Append(processed_jobs, ProcessedJob(job, u, result))
    /\ idx' = idx + 1
    /\ UNCHANGED << unit_vars, validation_config, original_jobs, ppc, validate_vars, fetch_vars,
                    batch_vars, extract_vars, files_vars, crawl_vars >>

(* lines 151-165: final_count and the returned output_data *)
ReturnOutput ==
    /\ ppc = "loop"
    /\ idx = Len(original_jobs)
    /\ stats' = [ stats EXCEPT !.final_count = Len(processed_jobs) ]
    /\ ppc' = "done"
    /\ UNCHANGED << unit_vars, validation_config, original_jobs, idx, processed_jobs, seen_job_ids,
                    results, validate_vars, fetch_vars,
                    batch_vars, extract_vars, files_vars, crawl_vars >>

NextProcess == ProcessJob \/ ReturnOutput

SpecProcess == InitProcess /\ [][NextProcess]_vars

---------------------------------------------------------------------------
(* HTMLDownloader.download_html *)

\* What one urlopen/read can end in: the content, socket.timeout, HTTPError
\* with its status code, URLError, any other exception.
HttpCodes == { 304, 404, 500, 503 }
Outcomes ==
    { [ kind |-> "ok", code |-> 200 ],
      [ kind |-> "timeout", code |-> 0 ],
      [ kind |-> "urlerror", code |-> 0 ],
      [ kind |-> "other", code |-> 0 ] }
    \cup { [ kind |-> "http", code |-> c ] : c \in HttpCodes }

RECURSIVE Pow2(_)
Pow2(n) == IF n = 0 THEN 1 ELSE 2 * Pow2(n - 1)

(* 2 * attempt in the place of 2 ** attempt *)
BackoffDelayLinear(a) == 2 * a

(* lines 98, 105, 114, 123: wait_time = 2 ** attempt *)
BackoffDelay(a) == Pow2(a)

(* HTTPError retried whatever its status code *)
RetryAllowedAnyStatus(o, a, retries) == a < retries

(* attempt < max_retries - 1 in the place of attempt < max_retries *)
RetryAllowedOneLess(o, a, retries) ==
    IF o.kind = "http" THEN o.code >= 500 /\ a < retries - 1 ELSE a < retries - 1

(* e.code > 500 in the place of e.code >= 500 *)
RetryAllowedAbove500(o, a, retries) ==
    IF o.kind = "http" THEN o.code > 500 /\ a < retries ELSE a < retries

(* lines 97, 104, 113, 122: the condition under which the handler sleeps  *)
(* and lets the loop go on                                                *)
RetryAllowed(o, a, retries) ==
    IF o.kind = "http" THEN o.code >= 500 /\ a < retries ELSE a < retries

(* lines 109, 118, 127: the handlers of HTTPError, URLError and Exception *)
(* break when they do not retry; the timeout handler has no break         *)
Breaks(o, a, retries) == o.kind # "timeout" /\ ~RetryAllowed(o, a, retries)

(* lines 96, 103, 112, 121 *)
FailureReason(o) ==
    CASE o.kind = "timeout"  -> "Timeout"
      [] o.kind = "http"     -> "HTTP"
      [] o.kind = "urlerror" -> "URL error"
      [] o.kind = "other"    -> "Unexpected error"

(* the reason of the first failed attempt kept through later attempts     *)
LastExceptionOfFirst(previous, o) ==
    IF previous = << "None", 0 >> THEN << FailureReason(o), o.code >> ELSE previous

(* lines 96, 103, 112, 121: every handler assigns last_exception anew      *)
LastException(previous, o) == << FailureReason(o), o.code >>

InitFetch ==
    /\ max_retries \in 0..MaxRetries
    /\ attempt = 0
    /\ outcomes = << >>
    /\ sleeps = << >>
    /\ last_exception = << "None", 0 >>
    /\ returned = "-"
    /\ fpc = "attempt"
    /\ validation_config = CfgNoPattern
    /\ ValidateIdle
    /\ ProcessIdle
    /\ DownstreamIdle

(* One pass of the loop body, lines 86-127, with outcome o of the request; *)
(* when the loop ends, line 130 returns None.                              *)
Attempt(o) ==
    /\ fpc = "attempt"
    /\ attempt \in 0..max_retries
    /\ outcomes' = Append(outcomes, o)
    /\ IF o.kind = "ok"
       THEN /\ returned' = "content"
            /\ fpc' = "done"
            /\ UNCHANGED << attempt, sleeps, last_exception >>
       ELSE /\ last_exception' = LastException(last_exception, o)
            /\ sleeps' = IF RetryAllowed(o, attempt, max_retries)
                         THEN Append(sleeps, BackoffDelay(attempt))
                         ELSE sleeps
            /\ IF Breaks(o, attempt, max_retries) \/ attempt + 1 \notin 0..max_retries
               THEN /\ returned' = "None"
                    /\ fpc' = "done"
                    /\ UNCHANGED attempt
               ELSE /\ attempt' = attempt + 1
                    /\ UNCHANGED << returned, fpc >>
    /\ UNCHANGED << max_retries, unit_vars, validation_config, validate_vars, process_vars,
                    batch_vars, extract_vars, files_vars, crawl_vars >>

NextFetch == \E o \in Outcomes : Attempt(o)

SpecFetch == InitFetch /\ [][NextFetch]_vars

---------------------------------------------------------------------------
(* Properties of process_jobs (SpecProcess) *)

UrlOf(k)   == DictGet(original_jobs[k], "url", EmptyStr)
ValidAt(k) == ~results[k].is_none
IdOf(k)    == DictGet(results[k].data, "job_id", EmptyStr)
FirstOfItsId(k) == ~\E j \in 1..(k - 1) : ValidAt(j) /\ IdOf(j) = IdOf(k)

(* the members of S up to k, in increasing order *)
RECURSIVE IndicesOf(_, _)
IndicesOf(S, k) ==
    IF k = 0 THEN << >>
    ELSE IF k \in S THEN Append(IndicesOf(S, k - 1), k) ELSE IndicesOf(S, k - 1)

(* the output is the stubs of Keep, in input order, and every other valid *)
(* stub was counted as a duplicate                                         *)
OutputIsExactly(Keep) ==
    LET ix == IndicesOf(Keep, idx)
    IN  /\ Len(processed_jobs) = Len(ix)
        /\ \A n \in 1..Len(ix) :
              /\ processed_jobs[n].url = UrlOf(ix[n])
              /\ processed_jobs[n].job_id = IdOf(ix[n])
              /\ processed_jobs[n].extracted_fields = results[ix[n]].data
        /\ stats.duplicate_count = Cardinality({ k \in 1..idx : ValidAt(k) /\ k \notin Keep })

(* C1: the returned statistics satisfy original = valid + invalid and      *)
(* valid = final + duplicate, original being the number of input stubs and *)
(* final the number of jobs in the output list.                            *)
C1_StatsInvariant ==
    ppc = "done" =>
        /\ stats.original_count = stats.valid_count + stats.invalid_count
        /\ stats.valid_count = stats.final_count + stats.duplicate_count
        /\ stats.original_count = Len(original_jobs)
        /\ stats.final_count = Len(processed_jobs)

C1_Witness ==
    /\ ppc = "done"
    /\ stats.invalid_count > 0
    /\ stats.duplicate_count > 0
    /\ stats.final_count > 0

(* C2 as stated: among the valid stubs that share an extracted job id only *)
(* the first is in the output, every later one is dropped and counted as a *)
(* duplicate, and the output keeps the input order.                        *)
C2_FirstOfEveryIdOnly ==
    OutputIsExactly({ k \in 1..idx : ValidAt(k) /\ FirstOfItsId(k) })

(* C2 amended: among the valid stubs that share a non-empty job id only    *)
(* the first is in the output, every later one is dropped and counted as a *)
(* duplicate and changes no accepted entry; a valid stub whose job id is   *)
(* empty or None is always kept; the output keeps the input order.  This   *)
(* holds after every iteration of the loop.                                *)
C2_FirstOccurrenceWins ==
    OutputIsExactly({ k \in 1..idx : ValidAt(k) /\ (~Truthy(IdOf(k)) \/ FirstOfItsId(k)) })

C2_Witness ==
    /\ ppc = "done"
    /\ stats.duplicate_count = 1
    /\ \E j, k \in 1..idx :
          /\ j < k
          /\ ValidAt(j) /\ ValidAt(k)
          /\ IdOf(j) = IdOf(k) /\ Truthy(IdOf(k))
          /\ UrlOf(j) # UrlOf(k)
          /\ processed_jobs[1].url = UrlOf(j)

(* C3 as stated: no two jobs of the output have the same job_id, the empty *)
(* job id included.                                                        *)
C3_NoTwoJobsShareAnId ==
    \A m, n \in 1..Len(processed_jobs) :
        m # n => processed_jobs[m].job_id # processed_jobs[n].job_id

(* C3 amended: no two jobs of the output have the same non-empty job_id.   *)
C3_NoTwoJobsShareANonEmptyId ==
    \A m, n \in 1..Len(processed_jobs) :
        m # n /\ Truthy(processed_jobs[m].job_id)
            => processed_jobs[m].job_id # processed_jobs[n].job_id

C3_Witness ==
    /\ ppc = "done"
    /\ Len(processed_jobs) >= 2
    /\ stats.duplicate_count > 0
    /\ \A n \in 1..Len(processed_jobs) : Truthy(processed_jobs[n].job_id)

FoundInvalid(u) ==
    \E p \in 1..Len(validation_config.invalid_patterns) :
        \E i \in 1..(Len(u) + 1) :
            Match(validation_config.invalid_patterns[p], u, i,
                  NoGroups(validation_config.invalid_patterns[p])) # << >>

C5_InvalidPatternWins ==
    /\ \A k \in 1..idx : FoundInvalid(UrlOf(k)) =>
          /\ results[k].is_none
          /\ \A n \in 1..Len(processed_jobs) : processed_jobs[n].url # UrlOf(k)
    /\ stats.invalid_count >= Cardinality({ k \in 1..idx : FoundInvalid(UrlOf(k)) })

C5_Witness ==
    /\ ppc = "done"
    /\ stats.invalid_count > 0
    /\ \E k \in 1..idx :
          /\ FoundInvalid(UrlOf(k))
          /\ validation_config.valid_pattern # Eps
          /\ ReMatch(validation_config.valid_pattern, UrlOf(k))

---------------------------------------------------------------------------
(* Properties of validate_url (SpecValidate) *)

Accepted == vpc = "returned" /\ ~validation_result.is_none

(* C6 as stated: an accepted URL matches the valid pattern as a whole.     *)
C6_FullMatchRequired ==
    Accepted => ReFullMatch(validation_config.valid_pattern, url)

(* C6 amended: an accepted URL has a leading part, possibly all of it,     *)
(* that matches the valid pattern as a whole; characters after that part   *)
(* do not reject the URL.                                                  *)
C6_PrefixMatchRequired ==
    Accepted =>
        \E n \in 0..Len(url) : ReFullMatch(validation_config.valid_pattern, SubSeq(url, 1, n))

C6_Witness ==
    /\ Accepted
    /\ ~ReFullMatch(validation_config.valid_pattern, url)

(* what re.match captured, before validate_url touches it *)
RawGroups == ReMatches(validation_config.valid_pattern, url)[1][2]
Captured(f) == f \in DOMAIN RawGroups /\ RawGroups[f] # None

(* C7: for an accepted URL every field of extracted_fields is in the       *)
(* result with a string value, the empty string when the pattern did not   *)
(* capture the field.                                                      *)
C7_ListedFieldsAreStrings ==
    Accepted =>
        \A k \in 1..Len(validation_config.extracted_fields) :
            LET f == validation_config.extracted_fields[k]
            IN  /\ f \in DOMAIN validation_result.data
                /\ validation_result.data[f] # None
                /\ ~Captured(f) => validation_result.data[f] = EmptyStr

(* t is c with every hyphen turned into a space and every run of letters   *)
(* capitalised                                                             *)
TitleCasedFrom(c, t) ==
    /\ Len(t) = Len(c)
    /\ \A i \in 1..Len(c) :
          IF c[i] = "-" THEN t[i] = " "
          ELSE IF c[i] \in Letters
          THEN /\ ToLower(t[i]) = ToLower(c[i])
               /\ IF i = 1 \/ c[i - 1] \notin Letters
                  THEN t[i] \in UpperChars
                  ELSE t[i] \in LowerChars
          ELSE t[i] = c[i]

(* C8: for an accepted URL the result holds the job_id capture verbatim, a *)
(* part of the URL, and the job_title capture with every hyphen replaced   *)
(* by a space and every word capitalised.                                  *)
C8_IdVerbatimTitleCased ==
    Accepted =>
        /\ Captured("job_id") =>
              /\ validation_result.data["job_id"] = RawGroups["job_id"]
              /\ \E a \in 1..(Len(url) + 1), b \in 0..Len(url) :
                    SubSeq(url, a, b) = validation_result.data["job_id"]
        /\ Captured("job_title") =>
              TitleCasedFrom(RawGroups["job_title"], validation_result.data["job_title"])

C8_Witness ==
    /\ Accepted
    /\ Captured("job_id")
    /\ Captured("job_title")
    /\ validation_result.data["job_id"] = << "1" >>
    /\ validation_result.data["job_title"] = << "A" >>
    /\ RawGroups["job_title"] = << "a" >>

---------------------------------------------------------------------------
(* Properties of download_html (SpecFetch) *)

RetryableFailure(o) ==
    \/ o.kind \in { "timeout", "urlerror", "other" }
    \/ o.kind = "http" /\ o.code >= 500

AllRetryableFailures == \A k \in 1..Len(outcomes) : RetryableFailure(outcomes[k])

(* C9: one fetch makes at most max_retries + 1 attempts, exactly that many *)
(* when every attempt fails with a retryable failure, and none after the   *)
(* first success.                                                          *)
C9_AttemptBudget ==
    /\ Len(outcomes) <= max_retries + 1
    /\ fpc = "done" /\ AllRetryableFailures => Len(outcomes) = max_retries + 1
    /\ \A k \in 1..Len(outcomes) : outcomes[k].kind = "ok" => k = Len(outcomes) /\ fpc = "done"

C9_Witness ==
    /\ fpc = "done"
    /\ returned = "None"
    /\ max_retries >= 2
    /\ AllRetryableFailures
    /\ Len(outcomes) = max_retries + 1

(* C10: a retryable failure of attempt k with attempts remaining is        *)
(* followed by a sleep of 2^k seconds, so the delays are 1, 2, 4, ...,     *)
(* 2^(max_retries-1); no sleep follows the final attempt, a success or a   *)
(* failure that is not retried.                                            *)
C10_BackoffDelays ==
    /\ \A k \in 1..Len(sleeps) : sleeps[k] = 2 ^ (k - 1)
    /\ Len(sleeps) =
          Cardinality({ k \in 1..Len(outcomes) :
                          RetryableFailure(outcomes[k]) /\ k - 1 < max_retries })
    /\ fpc = "attempt" => Len(sleeps) = Len(outcomes)
    /\ fpc = "done" => Len(sleeps) = Len(outcomes) - 1
    /\ fpc = "done" /\ AllRetryableFailures => Len(sleeps) = max_retries

C10_Witness ==
    /\ fpc = "done"
    /\ returned = "content"
    /\ Len(outcomes) = 3
    /\ outcomes[1].kind = "timeout"
    /\ outcomes[2].kind = "timeout"
    /\ sleeps = << 1, 2 >>

(* download_html with the loop always going on: a sleep and a request with *)
(* a timeout both return, so the next pass of the loop is taken            *)
SpecFetchLive == InitFetch /\ [][NextFetch]_vars /\ WF_vars(NextFetch)

ClientError(o) == o.kind = "http" /\ o.code >= 400 /\ o.code < 500

(* C11: an attempt that ends with an HTTP 4xx status is the last attempt   *)
(* of the fetch, the fetch fails, and no backoff sleep follows it.         *)
C11_ClientErrorFailsAtOnce ==
    \A k \in 1..Len(outcomes) :
        ClientError(outcomes[k]) =>
            /\ k = Len(outcomes)
            /\ fpc = "done"
            /\ returned = "None"
            /\ Len(sleeps) = k - 1

C11_Witness ==
    /\ fpc = "done"
    /\ Len(outcomes) = 2
    /\ max_retries >= 3
    /\ RetryableFailure(outcomes[1])
    /\ ClientError(outcomes[2])
    /\ sleeps = << 1 >>

TransientFailure(o) ==
    \/ o.kind \in { "timeout", "urlerror" }
    \/ o.kind = "http" /\ o.code >= 500

(* C12: a timeout, a network error or an HTTP 5xx on attempt k <           *)
(* max_retries is followed by attempt k + 1, and a fetch in which an       *)
(* attempt succeeds returns the content.                                   *)
C12_TransientFailureIsRetried ==
    /\ [](\A k \in 1..Len(outcomes) :
            TransientFailure(outcomes[k]) /\ k - 1 < max_retries =>
                \/ k < Len(outcomes)
                \/ k = Len(outcomes) /\ fpc = "attempt" /\ attempt = k)
    /\ [](\A k \in 1..Len(outcomes) :
            outcomes[k].kind = "ok" => fpc = "done" /\ returned = "content")
    /\ \A n \in 0..(MaxRetries + 1) :
            (fpc = "attempt" /\ attempt = n /\ Len(outcomes) = n) ~> (Len(outcomes) > n)

C12_Witness ==
    /\ fpc = "done"
    /\ returned = "content"
    /\ Len(outcomes) = 3
    /\ outcomes[1].kind = "http" /\ outcomes[1].code = 503
    /\ outcomes[2].kind = "urlerror"
    /\ outcomes[3].kind = "ok"

---------------------------------------------------------------------------
(* HTMLJobExtractor (processor/job_html_extractor.py).                     *)
(* A document is the sequence of its elements in document order; an        *)
(* element has a tag (the selectors are tag selectors), a text and a       *)
(* content attribute (None when the element has none).                     *)

MaxNodes == 2

UpperAlphabet == << "A", "B", "C", "D", "E", "F", "G", "H", "I", "J", "K", "L", "M", "N", "O", "P", "Q", "R", "S", "T", "U", "V", "W", "X", "Y", "Z" >>
LowerAlphabet == << "a", "b", "c", "d", "e", "f", "g", "h", "i", "j", "k", "l", "m", "n", "o", "p", "q", "r", "s", "t", "u", "v", "w", "x", "y", "z" >>

(* str.lower() *)
LowerOf ==
    [ c \in { UpperAlphabet[i] : i \in 1..Len(UpperAlphabet) } |->
        LowerAlphabet[CHOOSE i \in 1..Len(UpperAlphabet) : UpperAlphabet[i] = c] ]
LowerChar(c) == IF c \in DOMAIN LowerOf THEN LowerOf[c] ELSE c
StrLower(s) == [ i \in 1..Len(s) |-> LowerChar(s[i]) ]

(* needle in hay *)
Contains(hay, needle) ==
    \E i \in 0..(Len(hay) - Len(needle)) : SubSeq(hay, i + 1, i + Len(needle)) = needle

(* str.strip() *)
RECURSIVE LStrip(_), RStrip(_)
LStrip(s) == IF s # << >> /\ s[1] = " " THEN LStrip(Tail(s)) ELSE s
RStrip(s) == IF s # << >> /\ s[Len(s)] = " " THEN RStrip(SubSeq(s, 1, Len(s) - 1)) ELSE s
StrStrip(s) == RStrip(LStrip(s))

(* " ".join(value.split()) *)
RECURSIVE CollapseSpaces(_, _)
CollapseSpaces(s, i) ==
    IF i > Len(s) THEN << >>
    ELSE IF s[i] = " " /\ i > 1 /\ s[i - 1] = " " THEN CollapseSpaces(s, i + 1)
    ELSE << s[i] >> \o CollapseSpaces(s, i + 1)
WhitespaceNormalize(s) == CollapseSpaces(StrStrip(s), 1)

(* re.sub(pattern, replacement, s): the leftmost matches, not overlapping; *)
(* an empty match is replaced and the scan moves on by one character       *)
RECURSIVE ReSub(_, _, _, _)
ReSub(r, replacement, s, i) ==
    LET ms == Match(r, s, i, NoGroups(r))
    IN  IF ms = << >>
        THEN IF i > Len(s) THEN << >> ELSE << s[i] >> \o ReSub(r, replacement, s, i + 1)
        ELSE IF ms[1][1] > i
        THEN replacement \o ReSub(r, replacement, s, ms[1][1])
        ELSE IF i > Len(s) THEN replacement
        ELSE replacement \o << s[i] >> \o ReSub(r, replacement, s, i + 1)

Node(tag, text, content) == [ tag |-> tag, text |-> text, content |-> content ]

(* soup.get_text() *)
RECURSIVE GetText(_)
GetText(p) == IF p = << >> THEN << >> ELSE p[1].text \o GetText(Tail(p))

(* soup.select_one(selector): the first element the selector matches, 0 for None *)
SelectOne(p, selector) ==
    IF \E i \in 1..Len(p) : p[i].tag = selector
    THEN CHOOSE i \in 1..Len(p) : p[i].tag = selector /\ \A j \in 1..(i - 1) : p[j].tag # selector
    ELSE 0

(* lines 126-137 *)
GetElementValue(element, attribute) ==
    IF attribute = "text" THEN StrStrip(element.text)
    ELSE IF attribute = "content" THEN element.content
    ELSE None

(* lines 379-384 *)
ErrorIndicators ==
    << << "P", "a", "g", "e", " ", "n", "o", "t", " ", "f", "o", "u", "n", "d" >>,
       << "S", "o", "r", "r", "y", ",", " ", "t", "h", "i", "s", " ", "r", "o", "l", "e", " ", "d", "o", "e", "s", " ", "n", "o", "t", " ", "e", "x", "i", "s", "t" >>,
       << "i", "s", " ", "n", "o", " ", "l", "o", "n", "g", "e", "r", " ", "a", "v", "a", "i", "l", "a", "b", "l", "e" >>,
       << "p", "a", "g", "e", "-", "n", "o", "t", "-", "f", "o", "u", "n", "d", "-", "w", "r", "a", "p", "p", "e", "r" >> >>

(* the error-page test without the two lower() calls *)
IsErrorPageExactCase(p) ==
    \E k \in 1..Len(ErrorIndicators) : Contains(GetText(p), ErrorIndicators[k])

(* lines 386-390 *)
IsErrorPage(p) ==
    \E k \in 1..Len(ErrorIndicators) :
        Contains(StrLower(GetText(p)), StrLower(ErrorIndicators[k]))

(* The rules of a configuration section.  basic_config.get(name) of a name *)
(* the section lacks is None: MissingRule.                                 *)
MissingRule == [ kind |-> "missing" ]
StrRule(selector) == [ kind |-> "str", selector |-> selector ]
DictRule(selector, attribute, fallback_selectors, transform) ==
    [ kind |-> "dict", selector |-> selector, attribute |-> attribute,
      fallback_selectors |-> fallback_selectors, transform |-> transform,
      has_default |-> FALSE, default |-> None, url_param |-> "" ]
DefaultRule(default) ==
    [ DictRule("", "text", << >>, "") EXCEPT !.has_default = TRUE, !.default = default ]
UrlParamRule(url_param, selector) ==
    [ DictRule(selector, "text", << >>, "") EXCEPT !.url_param = url_param ]

CurrentTimestamp == << "c", "u", "r", "r", "e", "n", "t", "_", "t", "i", "m", "e", "s", "t", "a", "m", "p" >>
(* datetime.now().isoformat(): some non-empty string *)
NowIsoFormat == << "2", "1" >>

(* lines 139-194; of the transformation types, regex_replace and           *)
(* whitespace_normalize are the ones the configurations below use          *)
ApplyTransform(value, transform, pats) ==
    IF transform = "" \/ ~Truthy(value) THEN value
    ELSE IF transform \in DOMAIN pats.transformations
    THEN LET transform_config == pats.transformations[transform]
         IN  CASE transform_config.type = "regex_replace" ->
                    ReSub(transform_config.pattern, transform_config.replacement, value, 1)
               [] transform_config.type = "whitespace_normalize" -> WhitespaceNormalize(value)
               [] OTHER -> value
    ELSE value

(* the selectors in order where the first one that matches an element     *)
(* decides, whatever the value of that element                             *)
RECURSIVE TrySelectorsFirstMatch(_, _, _, _, _)
TrySelectorsFirstMatch(p, selectors, k, config, pats) ==
    IF k > Len(selectors) THEN None
    ELSE LET element == IF selectors[k] = "" THEN 0 ELSE SelectOne(p, selectors[k])
             value == IF element = 0 THEN None ELSE GetElementValue(p[element], config.attribute)
         IN  IF element # 0
             THEN IF Truthy(value) THEN ApplyTransform(value, config.transform, pats) ELSE None
             ELSE TrySelectorsFirstMatch(p, selectors, k + 1, config, pats)

(* lines 102-118: the primary selector, then the fallbacks in order; the   *)
(* first element with a truthy value decides                               *)
RECURSIVE TrySelectors(_, _, _, _, _)
TrySelectors(p, selectors, k, config, pats) ==
    IF k > Len(selectors) THEN None
    ELSE LET element == IF selectors[k] = "" THEN 0 ELSE SelectOne(p, selectors[k])
             value == IF element = 0 THEN None ELSE GetElementValue(p[element], config.attribute)
         IN  IF Truthy(value) THEN ApplyTransform(value, config.transform, pats)
             ELSE TrySelectors(p, selectors, k + 1, config, pats)

(* soup.select_one(None) of line 121 raised *)
Raised == << "Raised" >>

(* lines 66-124 *)
ExtractWithSelector(p, config, src, pats, l) ==
    CASE config.kind = "dict" ->
            IF config.has_default /\ config.selector = ""
            THEN IF config.default = CurrentTimestamp THEN NowIsoFormat ELSE config.default
            ELSE IF config.url_param # "" /\ src.text # EmptyStr
            THEN DictGet(src.query, config.url_param, None)
            ELSE TrySelectors(p, << config.selector >> \o config.fallback_selectors, 1, config, pats)
      [] config.kind = "str" ->
            IF SelectOne(p, config.selector) # 0
            THEN StrStrip(p[SelectOne(p, config.selector)].text)
            ELSE None
      [] config.kind = "missing" -> IF l.select_none_raises THEN Raised ELSE None

(* the required-fields test that looks at the job id only *)
MissingRequiredIdOnly(job_id, title) == ~Truthy(job_id)

(* line 399: not job_id or not title *)
MissingRequired(job_id, title) == ~Truthy(job_id) \/ ~Truthy(title)

AppleInc == << "A", "p", "p", "l", "e", " ", "I", "n", "c", "." >>

(* lines 361-533.  l.rest_raises: some statement of lines 405-527 raised.  *)
extract_job_posting(p, pats, src, l) ==
    IF IsErrorPage(p) THEN NoRecord
    ELSE LET basic_config == pats.basic_info
             job_id  == ExtractWithSelector(p, DictGet(basic_config, "job_id", MissingRule), src, pats, l)
             title   == ExtractWithSelector(p, DictGet(basic_config, "title", MissingRule), src, pats, l)
             company == ExtractWithSelector(p, DictGet(basic_config, "company", MissingRule), src, pats, l)
         IN  IF Raised \in { job_id, title, company } THEN NoRecord
             ELSE IF MissingRequired(job_id, title) THEN NoRecord
             ELSE IF l.rest_raises THEN NoRecord
             ELSE [ is_none |-> FALSE, job_id |-> job_id, title |-> title,
                    company |-> IF Truthy(company) THEN company ELSE AppleInc ]

(* Elements documents are built from *)
IdNode      == Node("id", << "1" >>, None)
IdBlankNode == Node("id", << " " >>, None)
IdAlphaNode == Node("id", << "a" >>, None)
MetaNode    == Node("meta", << >>, << "2" >>)
TitleNode   == Node("h1", << "D", "e", "v", " ", " ", "O", "p", "s" >>, None)
GoneTitle   == Node("h1", << "P", "a", "g", "e", " ", "N", "o", "t", " ", "F", "o", "u", "n", "d" >>, None)
AltTitle    == Node("h2", << " ", "O", "p", "s" >>, None)
GoneNote    == Node("p", << "i", "s", " ", "N", "O", " ", "l", "o", "n", "g", "e", "r", " ", "A", "v", "a", "i", "l", "a", "b", "l", "e" >>, None)
Nodes == { IdNode, IdBlankNode, IdAlphaNode, MetaNode, TitleNode, GoneTitle, AltTitle, GoneNote }

RECURSIVE PagesUpTo(_)
PagesUpTo(n) ==
    IF n = 0 THEN { << >> }
    ELSE LET shorter == PagesUpTo(n - 1)
         IN  shorter \cup { Append(q, e) : q \in { t \in shorter : Len(t) = n - 1 }, e \in Nodes }

(* Extraction configurations *)
DigitsOnly ==
    [ type |-> "regex_replace", pattern |-> Plus(Cls(Letters \cup {" "})), replacement |-> EmptyStr ]
Normalize ==
    [ type |-> "whitespace_normalize", pattern |-> Eps, replacement |-> EmptyStr ]
Transformations == [ t \in { "digits_only", "normalize" } |->
                        IF t = "digits_only" THEN DigitsOnly ELSE Normalize ]

Basic(job_id, title, company) ==
    [ k \in { "job_id", "title", "company" } |->
        IF k = "job_id" THEN job_id ELSE IF k = "title" THEN title ELSE company ]
Patterns(basic_info) == [ basic_info |-> basic_info, transformations |-> Transformations ]

PatPlain    == Patterns(Basic(StrRule("id"), StrRule("h1"), DefaultRule(<< "C" >>)))
PatFallback == Patterns(Basic(DictRule("meta", "content", << "id" >>, ""),
                              DictRule("h1", "text", << "h2" >>, "normalize"),
                              StrRule("p")))
PatDigits   == Patterns(Basic(DictRule("id", "text", << >>, "digits_only"), StrRule("h1"),
                              DefaultRule(CurrentTimestamp)))
PatUrlParam == Patterns(Basic(UrlParamRule("id", "id"), DictRule("h2", "text", << "h1" >>, ""),
                              DefaultRule(EmptyStr)))
PatEmptyId  == Patterns(Basic(DefaultRule(EmptyStr), StrRule("h1"), StrRule("p")))
PatNoTitle  == Patterns([ k \in { "job_id" } |-> StrRule("id") ])
PatNoCompany == Patterns([ k \in { "job_id", "title" } |->
                            IF k = "job_id" THEN StrRule("id") ELSE StrRule("h1") ])
ExtractionConfigs ==
    { PatPlain, PatFallback, PatDigits, PatUrlParam, PatEmptyId, PatNoTitle, PatNoCompany }

(* source_url with its query string as parse_qs reads it *)
SourceUrls ==
    { NoSourceUrl,
      [ text |-> << "/", "a", "?", "i", "d", "=", "2" >>, query |-> [ k \in { "id" } |-> << "2" >> ] ],
      [ text |-> << "/", "a" >>, query |-> EmptyDict ] }

Libs == [ select_none_raises : BOOLEAN, rest_raises : BOOLEAN ]

---------------------------------------------------------------------------
(* SpecExtract: one call of extract_job_posting on any document,           *)
(* configuration and source URL                                            *)

InitExtract ==
    /\ patterns \in ExtractionConfigs
    /\ page \in PagesUpTo(MaxNodes)
    /\ source_url \in SourceUrls
    /\ lib \in Libs
    /\ extract_result = NoRecord
    /\ xpc = "call"
    /\ validation_config = CfgNoPattern
    /\ ValidateIdle /\ ProcessIdle /\ FetchIdle
    /\ BatchIdle /\ FilesIdle /\ CrawlIdle /\ UnitIdle

ExtractCall ==
    /\ xpc = "call"
    /\ extract_result' = extract_job_posting(page, patterns, source_url, lib)
    /\ xpc' = "returned"
    /\ UNCHANGED << patterns, page, source_url, lib, unit_vars, validation_config,
                    validate_vars, process_vars, fetch_vars, batch_vars, files_vars, crawl_vars >>

NextExtract == ExtractCall

SpecExtract == InitExtract /\ [][NextExtract]_vars

---------------------------------------------------------------------------
(* Properties of extract_job_posting (SpecExtract) *)

(* what the job_id and title rules of the configuration resolve to *)
ResolvedJobId ==
    ExtractWithSelector(page, DictGet(patterns.basic_info, "job_id", MissingRule),
                        source_url, patterns, lib)
ResolvedTitle ==
    ExtractWithSelector(page, DictGet(patterns.basic_info, "title", MissingRule),
                        source_url, patterns, lib)
NonEmptyValue(v) == v \notin { None, Raised, EmptyStr }

(* C16: extract_job_posting returns a record only if the job id and the    *)
(* title both resolved to non-empty values, and the record carries them;   *)
(* in every other case it returns no record.                               *)
C16_RecordHasIdAndTitle ==
    xpc = "returned" =>
        /\ ~extract_result.is_none =>
              /\ NonEmptyValue(ResolvedJobId) /\ extract_result.job_id = ResolvedJobId
              /\ NonEmptyValue(ResolvedTitle) /\ extract_result.title = ResolvedTitle
        /\ ~(NonEmptyValue(ResolvedJobId) /\ NonEmptyValue(ResolvedTitle)) => extract_result.is_none

(* a job id is resolved, the title is not: no record *)
C16_Witness ==
    /\ xpc = "returned"
    /\ ~IsErrorPage(page)
    /\ NonEmptyValue(ResolvedJobId)
    /\ ResolvedTitle = None
    /\ ~lib.rest_raises
    /\ extract_result.is_none

---------------------------------------------------------------------------
(* SpecExtractFiles: process_html_files over a dump directory *)

DotHtml == << ".", "h", "t", "m", "l" >>
DotJson == << ".", "j", "s", "o", "n" >>

(* html_file.stem + ".json", for a name that glob("*.html") returned *)
JsonName(name) == SubSeq(name, 1, Len(name) - Len(DotHtml)) \o DotJson

FirstHtml  == << "a" >> \o DotHtml
SecondHtml == << "b" >> \o DotHtml

HtmlFile(body, by) == [ body |-> body, by |-> by ]

(* the documents of the dump directory *)
DumpBodies ==
    { << >>, << IdNode, TitleNode >>, << IdNode, GoneTitle >>, << TitleNode >>,
      << IdNode, TitleNode, GoneNote >>, << MetaNode, AltTitle >> }

(* the dump directories: empty, one file or two files, all written by an   *)
(* earlier run (writer 0)                                                  *)
HtmlDirs ==
    { EmptyDict }
    \cup { [ f \in { FirstHtml } |-> HtmlFile(b, << 0 >>) ] : b \in DumpBodies }
    \cup { [ f \in { FirstHtml, SecondHtml } |->
                IF f = FirstHtml THEN HtmlFile(b, << 0 >>) ELSE HtmlFile(c, << 0 >>) ] :
            b \in DumpBodies, c \in DumpBodies }

(* what reading the file and saving the record do *)
FileIo == { "ok", "read_raises", "open_raises", "dump_raises" }

InitExtractFiles ==
    /\ patterns \in ExtractionConfigs
    /\ lib \in { l \in Libs : ~l.rest_raises }
    /\ html_files \in HtmlDirs
    /\ todo_html = DOMAIN html_files
    /\ json_files = EmptyDict
    /\ successful_extractions = 0
    /\ failed_extractions = 0
    /\ extract_log = << >>
    /\ epc = "loop"
    /\ page = << >> /\ source_url = NoSourceUrl /\ extract_result = NoRecord /\ xpc = "idle"
    /\ batch_jobs = << >> /\ bi = 0 /\ success_count = 0 /\ failed_count = 0
    /\ batch_log = << >> /\ bpc = "idle"
    /\ validation_config = CfgNoPattern
    /\ ValidateIdle /\ ProcessIdle /\ FetchIdle /\ CrawlIdle /\ UnitIdle

(* lines 655-679: one iteration of the loop, for the file html_file *)
VisitFile(html_file, io, rest_raises) ==
    /\ epc = "loop"
    /\ html_file \in todo_html
    /\ LET job_posting ==
               IF io = "read_raises" THEN NoRecord
               ELSE extract_job_posting(html_files[html_file].body, patterns, NoSourceUrl,
                                        [ lib EXCEPT !.rest_raises = rest_raises ])
           saved == ~job_posting.is_none /\ io = "ok"
           touched == ~job_posting.is_none /\ io \in { "ok", "dump_raises" }
       IN  /\ json_files' =
                 IF touched
                 THEN DictSet(json_files, JsonName(html_file),
                              [ record |-> job_posting, complete |-> saved ])
                 ELSE json_files
           /\ successful_extractions' = successful_extractions + (IF saved THEN 1 ELSE 0)
           /\ failed_extractions' = failed_extractions + (IF saved THEN 0 ELSE 1)
           /\ extract_log' = Append(extract_log,
                 [ file |-> html_file, body |-> html_files[html_file].body, io |-> io,
                   result |-> job_posting, wrote |-> touched ])
    /\ todo_html' = todo_html \ { html_file }
    /\ UNCHANGED << patterns, lib, html_files, epc, page, source_url, extract_result, xpc,
                    batch_jobs, bi, success_count, failed_count, batch_log, bpc,
                    unit_vars, validation_config, validate_vars, process_vars, fetch_vars, crawl_vars >>

(* lines 646-648 and 681-685: no file is left *)
EndFiles ==
    /\ epc = "loop"
    /\ todo_html = {}
    /\ epc' = "done"
    /\ UNCHANGED << patterns, lib, html_files, todo_html, json_files, successful_extractions,
                    failed_extractions, extract_log, page, source_url, extract_result, xpc,
                    batch_jobs, bi, success_count, failed_count, batch_log, bpc,
                    unit_vars, validation_config, validate_vars, process_vars, fetch_vars, crawl_vars >>

NextExtractFiles ==
    \/ \E html_file \in todo_html, io \in FileIo, rest_raises \in BOOLEAN :
            VisitFile(html_file, io, rest_raises)
    \/ EndFiles

SpecExtractFiles == InitExtractFiles /\ [][NextExtractFiles]_vars

---------------------------------------------------------------------------
(* Properties of the error-page test (SpecExtractFiles) *)

(* the text of the document holds a marker phrase, letter case aside *)
HasMarker(body) ==
    \E k \in 1..Len(ErrorIndicators) :
        Contains(StrLower(GetText(body)), StrLower(ErrorIndicators[k]))

(* C17: a document whose text holds an error-page marker phrase, in any    *)
(* letter case, yields no record, and the batch writes no output file for  *)
(* it, whatever its job id and title resolve to.                           *)
C17_ErrorPageYieldsNothing ==
    \A k \in 1..Len(extract_log) :
        HasMarker(extract_log[k].body) =>
            /\ extract_log[k].result.is_none
            /\ ~extract_log[k].wrote
            /\ JsonName(extract_log[k].file) \notin DOMAIN json_files

(* the title element reads "Page Not Found", job id and title resolve *)
C17_Witness ==
    /\ epc = "done"
    /\ patterns = PatPlain
    /\ \E k \in 1..Len(extract_log) :
          /\ extract_log[k].body = << IdNode, GoneTitle >>
          /\ extract_log[k].io = "ok"
          /\ ExtractWithSelector(extract_log[k].body, StrRule("id"), NoSourceUrl, patterns, lib)
                = << "1" >>
          /\ NonEmptyValue(ExtractWithSelector(extract_log[k].body, StrRule("h1"), NoSourceUrl,
                                               patterns, lib))
          /\ extract_log[k].result.is_none
          /\ json_files = EmptyDict

---------------------------------------------------------------------------
(* HTMLDownloader.sanitize_filename and process_urls_from_json             *)
(* (crawler/html_downloader.py)                                            *)

MaxBatch == 2

(* the first position from k on that holds a character of S, Len(u) + 1 if none *)
RECURSIVE FirstOf(_, _, _)
FirstOf(u, S, k) ==
    IF k > Len(u) THEN Len(u) + 1
    ELSE IF u[k] \in S THEN k ELSE FirstOf(u, S, k + 1)

(* urlparse(url) of a URL without a scheme and without ";": the network    *)
(* location follows a leading "//" and ends before "/", "?" or "#"         *)
HasNetloc(u) == Len(u) >= 2 /\ u[1] = "/" /\ u[2] = "/"
NetlocEnd(u) == IF HasNetloc(u) THEN FirstOf(u, { "/", "?", "#" }, 3) ELSE 1
Netloc(u) == IF HasNetloc(u) THEN SubSeq(u, 3, NetlocEnd(u) - 1) ELSE EmptyStr
(* ValueError("Invalid IPv6 URL") *)
UrlParseRaises(u) ==
    LET chars == { Netloc(u)[i] : i \in 1..Len(Netloc(u)) }
    IN  ("[" \in chars /\ "]" \notin chars) \/ ("]" \in chars /\ "[" \notin chars)
(* urlparse(url).path *)
UrlPath(u) == SubSeq(u, NetlocEnd(u), FirstOf(u, { "?", "#" }, NetlocEnd(u)) - 1)

(* str.replace(c, "_") for every c of S *)
ReplaceChars(t, S) == [ i \in 1..Len(t) |-> IF t[i] \in S THEN "_" ELSE t[i] ]

(* str.strip("_") *)
RECURSIVE LStripUnderscores(_), RStripUnderscores(_)
LStripUnderscores(t) == IF t # << >> /\ t[1] = "_" THEN LStripUnderscores(Tail(t)) ELSE t
RStripUnderscores(t) ==
    IF t # << >> /\ t[Len(t)] = "_" THEN RStripUnderscores(SubSeq(t, 1, Len(t) - 1)) ELSE t

EndsWith(t, suffix) ==
    Len(t) >= Len(suffix) /\ SubSeq(t, Len(t) - Len(suffix) + 1, Len(t)) = suffix

(* line 63 *)
InvalidChars == { "<", ">", ":", "\"", "|", "?", "*" }

(* lines 44-72, for a URL that urlparse accepts *)
sanitize_filename(u, job_id) ==
    LET path == ReplaceChars(UrlPath(u), { "/" })
        base_name == IF Truthy(job_id) THEN job_id \o << "_" >> \o path ELSE path
        stripped == RStripUnderscores(LStripUnderscores(ReplaceChars(base_name, InvalidChars)))
    IN  IF EndsWith(stripped, DotHtml) THEN stripped ELSE stripped \o DotHtml

(* the stubs of the source file; a stub without "url" has url = None *)
Job(u, job_id) == [ url |-> u, job_id |-> job_id ]
JobA      == Job(<< "/", "a" >>, << "1" >>)
JobAQuery == Job(<< "/", "a", "?", "x" >>, << "1" >>)
JobColon  == Job(<< "/", "a", ":", "b", ".", "h", "t", "m", "l" >>, EmptyStr)
JobNoUrl  == Job(None, << "2" >>)
JobBadUrl == Job(<< "/", "/", "[", "a" >>, << "1" >>)
BatchJobs == { JobA, JobAQuery, JobColon, JobNoUrl, JobBadUrl }

RECURSIVE BatchesUpTo(_)
BatchesUpTo(n) ==
    IF n = 0 THEN { << >> }
    ELSE LET shorter == BatchesUpTo(n - 1)
         IN  shorter \cup { Append(b, j) : b \in { t \in shorter : Len(t) = n - 1 }, j \in BatchJobs }

(* the dump directory before the run: empty, or the file of JobColon *)
EarlierDumps ==
    { EmptyDict,
      [ f \in { sanitize_filename(JobColon.url, JobColon.job_id) } |->
            HtmlFile(<< IdNode, TitleNode >>, << 0 >>) ] }

(* the outcomes of an attempt and the response bodies of the batch *)
BatchOutcomes == { o \in Outcomes : o.kind \in { "ok", "timeout" } \/ o.code = 404 }
Bodies == { << >>, << IdNode, TitleNode >> }
WriteIo == { "ok", "open_raises", "write_raises" }

(* a test that never finds the file *)
FileExistsNever(filename, files) == FALSE

(* line 174: filepath.exists() *)
FileExists(filename, files) == filename \in DOMAIN files

InitDownload ==
    /\ batch_jobs \in BatchesUpTo(MaxBatch)
    /\ bi = 0
    /\ html_files \in EarlierDumps
    /\ success_count = 0
    /\ failed_count = 0
    /\ batch_log = << >>
    /\ bpc = "next"
    /\ max_retries \in { 0, 1 }
    /\ attempt = 0 /\ outcomes = << >> /\ sleeps = << >>
    /\ last_exception = << "None", 0 >> /\ returned = "-" /\ fpc = "idle"
    /\ validation_config = CfgNoPattern
    /\ ValidateIdle /\ ProcessIdle /\ ExtractIdle /\ FilesIdle /\ CrawlIdle /\ UnitIdle

LogEntry(what, filename, requests, wrote, counted, delay_after) ==
    [ what |-> what, filename |-> filename, requests |-> requests, wrote |-> wrote,
      counted |-> counted, delay_after |-> delay_after ]

(* lines 158-180: the loop takes the next job, up to the call of download_html *)
StartJob ==
    /\ bpc = "next"
    /\ bi < Len(batch_jobs)
    /\ bi' = bi + 1
    /\ LET job == batch_jobs[bi + 1]
       IN  IF ~Truthy(job.url)
           THEN /\ failed_count' = failed_count + 1
                /\ batch_log' = Append(batch_log, LogEntry("nourl", EmptyStr, 0, FALSE, "failed", FALSE))
                /\ UNCHANGED << success_count, bpc, fetch_vars >>
           ELSE IF UrlParseRaises(job.url)
           THEN /\ batch_log' = Append(batch_log, LogEntry("raised", EmptyStr, 0, FALSE, "none", FALSE))
                /\ bpc' = "aborted"
                /\ UNCHANGED << success_count, failed_count, fetch_vars >>
           ELSE IF FileExists(sanitize_filename(job.url, job.job_id), html_files)
           THEN /\ success_count' = success_count + 1
                /\ batch_log' = Append(batch_log,
                        LogEntry("skip", sanitize_filename(job.url, job.job_id), 0, FALSE,
                                 "success", FALSE))
                /\ UNCHANGED << failed_count, bpc, fetch_vars >>
           ELSE /\ bpc' = "download"
                /\ attempt' = 0 /\ outcomes' = << >> /\ sleeps' = << >>
                /\ last_exception' = << "None", 0 >> /\ returned' = "-" /\ fpc' = "attempt"
                /\ UNCHANGED << max_retries, success_count, failed_count, batch_log >>
    /\ UNCHANGED << batch_jobs, html_files, unit_vars, validation_config, validate_vars, process_vars,
                    extract_vars, files_vars, crawl_vars >>

(* lines 180-196: download_html has returned; body is the response body,   *)
(* io what opening and writing the file do                                 *)
FinishJob(body, io) ==
    /\ bpc = "download"
    /\ fpc = "done"
    /\ LET job == batch_jobs[bi]
           filename == sanitize_filename(job.url, job.job_id)
           html_content == IF returned = "content" THEN body ELSE << >>
           saved == html_content # << >> /\ io = "ok"
           touched == html_content # << >> /\ io \in { "ok", "write_raises" }
           written == IF io = "ok" THEN html_content ELSE << >>
       IN  /\ html_files' =
                 IF touched
                 THEN DictSet(html_files, filename,
                              HtmlFile(written,
                                       IF filename \in DOMAIN html_files
                                       THEN Append(html_files[filename].by, bi) ELSE << bi >>))
                 ELSE html_files
           /\ success_count' = success_count + (IF saved THEN 1 ELSE 0)
           /\ failed_count' = failed_count + (IF saved THEN 0 ELSE 1)
           /\ batch_log' = Append(batch_log,
                 LogEntry("download", filename, Len(outcomes), touched,
                          IF saved THEN "success" ELSE "failed", bi < Len(batch_jobs)))
    /\ bpc' = "next"
    /\ UNCHANGED << batch_jobs, bi, fetch_vars, unit_vars, validation_config, validate_vars, process_vars,
                    extract_vars, files_vars, crawl_vars >>

(* lines 148-150 and 198-201: no job is left *)
EndBatch ==
    /\ bpc = "next"
    /\ bi = Len(batch_jobs)
    /\ bpc' = "done"
    /\ UNCHANGED << batch_jobs, bi, html_files, success_count, failed_count, batch_log,
                    fetch_vars, unit_vars, validation_config, validate_vars, process_vars,
                    extract_vars, files_vars, crawl_vars >>

NextDownload ==
    \/ StartJob
    \/ \E o \in BatchOutcomes : bpc = "download" /\ Attempt(o)
    \/ \E body \in Bodies, io \in WriteIo : FinishJob(body, io)
    \/ EndBatch

SpecDownload == InitDownload /\ [][NextDownload]_vars

---------------------------------------------------------------------------
(* Properties of the download batch (SpecDownload) *)

(* the file of job k was in the dump directory before the loop reached job *)
(* k: an earlier run (writer 0) or an earlier job of the batch wrote it    *)
ExistedBefore(k) ==
    /\ batch_log[k].filename \in DOMAIN html_files
    /\ \E w \in 1..Len(html_files[batch_log[k].filename].by) :
            html_files[batch_log[k].filename].by[w] < k

(* C13: a job whose destination file already exists makes no request and   *)
(* is counted as successful, and no file of the dump directory is ever     *)
(* written a second time.                                                  *)
C13_ExistingFileIsSkipped ==
    /\ \A k \in 1..Len(batch_log) :
          batch_log[k].what \in { "skip", "download" } /\ ExistedBefore(k) =>
              /\ batch_log[k].what = "skip"
              /\ batch_log[k].requests = 0
              /\ batch_log[k].counted = "success"
    /\ \A f \in DOMAIN html_files : Len(html_files[f].by) = 1

(* "/a" and "/a?x" of job id 1 derive one filename: the first is fetched   *)
(* and written, the second is skipped                                      *)
C13_Witness ==
    /\ bpc = "done"
    /\ batch_jobs = << JobA, JobAQuery >>
    /\ batch_log[1].what = "download" /\ batch_log[1].wrote /\ batch_log[1].requests > 0
    /\ batch_log[2].what = "skip" /\ batch_log[2].requests = 0
    /\ batch_log[1].filename = batch_log[2].filename
    /\ success_count = 2

(* C14: the politeness delay is slept only between two successive jobs     *)
(* that each perform a network download, never right before a job that an  *)
(* existing file satisfies.                                                *)
C14_DelayOnlyBetweenDownloads ==
    \A k \in 1..(Len(batch_log) - 1) :
        batch_log[k].delay_after =>
            batch_log[k].what = "download" /\ batch_log[k + 1].what = "download"

(* C15: a failure on one job never keeps the loop from the remaining jobs: *)
(* when the batch has ended every job was counted exactly once and         *)
(* success_count + failed_count is the number of jobs.                     *)
C15_EveryJobIsCounted ==
    bpc \in { "done", "aborted" } =>
        /\ bi = Len(batch_jobs)
        /\ Len(batch_log) = Len(batch_jobs)
        /\ \A k \in 1..Len(batch_log) : batch_log[k].counted \in { "success", "failed" }
        /\ success_count + failed_count = Len(batch_jobs)

---------------------------------------------------------------------------
(* JobUrlSpider (crawler/url_fetcher.py): the page-by-page crawl *)

MaxPage == 6

(* line 46 *)
max_empty_pages == 5

(* what the page shows of the next control when the check looks at it:     *)
(* wait: wait_for_selector returns or times out; button: query_selector    *)
(* finds the control; disabled: the disabled attribute is present; aria:   *)
(* the value of aria-disabled; raises: a call of the check raises          *)
Probe(wait, button, disabled, aria, raises) ==
    [ wait |-> wait, button |-> button, disabled |-> disabled, aria |-> aria, raises |-> raises ]
ProbeEnabled      == Probe("found", TRUE, FALSE, "none", FALSE)
ProbeDisabled     == Probe("found", TRUE, TRUE, "none", FALSE)
ProbeAriaDisabled == Probe("found", TRUE, FALSE, "true", FALSE)
ProbeTimeout      == Probe("timeout", FALSE, FALSE, "none", FALSE)
ProbeNotFound     == Probe("found", FALSE, FALSE, "none", FALSE)
ProbeRaises       == Probe("found", TRUE, FALSE, "none", TRUE)
ProbeNotCalled    == Probe("none", FALSE, FALSE, "none", FALSE)
Probes == { ProbeEnabled, ProbeDisabled, ProbeAriaDisabled, ProbeTimeout, ProbeNotFound,
            ProbeRaises }

(* a check that takes a failed detection for an available next page *)
CheckNextPageAvailableOnFailure(probe) ==
    IF probe.wait = "timeout" \/ ~probe.button \/ probe.raises THEN TRUE
    ELSE ~probe.disabled /\ probe.aria # "true"

(* lines 252-288 *)
CheckNextPageAvailable(probe) ==
    IF probe.wait = "timeout" THEN FALSE
    ELSE IF probe.raises THEN FALSE
    ELSE IF ~probe.button THEN FALSE
    ELSE IF probe.disabled THEN FALSE
    ELSE IF probe.aria = "true" THEN FALSE
    ELSE TRUE

(* a handler that asks for the next page whatever the check said *)
HasNextPageAlways(enabled, probe) == TRUE

(* lines 99-105 *)
HasNextPage(enabled, probe) == enabled /\ CheckNextPageAvailable(probe)

(* what _extract_jobs_from_page returns: the URLs of the stubs, in order *)
StubUrlOne == << "/", "1" >>
StubUrlTwo == << "/", "2" >>

(* job_data of lines 354-364: the URL, what the listing shows for it, and  *)
(* the page it was found on (source_url is response.url)                   *)
Stub(stub_url, title, source_page) ==
    [ url |-> stub_url, title |-> title, source_url |-> source_page ]

(* what the selectors find on a page: the URL and title of every element *)
Listing(stub_url, title) == [ url |-> stub_url, title |-> title ]

PageJobs ==
    { << >>,
      << Listing(StubUrlOne, << "a" >>) >>,
      << Listing(StubUrlTwo, << "a" >>), Listing(StubUrlOne, << "b" >>),
         Listing(StubUrlTwo, << "b" >>) >> }

(* _extract_jobs_from_page(response) on the page with that number *)
ExtractJobsFromPage(listing, current_page) ==
    [ i \in 1..Len(listing) |-> Stub(listing[i].url, listing[i].title, current_page) ]

Range(q) == { q[i] : i \in 1..Len(q) }

(* {job["url"] for job in jobs} *)
UrlsOf(jobs) == { jobs[i].url : i \in 1..Len(jobs) }

(* the frontier: self.job_urls and self.unique_urls *)
Frontier(jobs, unique) == [ job_urls |-> jobs, unique_urls |-> unique ]

(* the loop of lines 139-144 appending every stub, seen before or not *)
RECURSIVE AddEvery(_, _, _)
AddEvery(frontier, page_jobs, k) ==
    IF k > Len(page_jobs) THEN frontier
    ELSE AddEvery(Frontier(Append(frontier.job_urls, page_jobs[k]),
                           frontier.unique_urls \cup { page_jobs[k].url }),
                  page_jobs, k + 1)

(* the loop of lines 139-144 putting a new stub in front of the list *)
RECURSIVE AddUniqueInFront(_, _, _)
AddUniqueInFront(frontier, page_jobs, k) ==
    IF k > Len(page_jobs) THEN frontier
    ELSE AddUniqueInFront(IF page_jobs[k].url \notin frontier.unique_urls
                          THEN Frontier(<< page_jobs[k] >> \o frontier.job_urls,
                                        frontier.unique_urls \cup { page_jobs[k].url })
                          ELSE frontier,
                          page_jobs, k + 1)

(* lines 139-144: the stubs of the page whose URL is not in unique_urls    *)
(* are added, in order                                                     *)
RECURSIVE AddUnique(_, _, _)
AddUnique(frontier, page_jobs, k) ==
    IF k > Len(page_jobs) THEN frontier
    ELSE AddUnique(IF page_jobs[k].url \notin frontier.unique_urls
                   THEN Frontier(Append(frontier.job_urls, page_jobs[k]),
                                 frontier.unique_urls \cup { page_jobs[k].url })
                   ELSE frontier,
                   page_jobs, k + 1)

(* the follow-up requests a handler yields, two pages at once *)
NextRequestsTwoAhead(current_page, has_next_page) ==
    IF has_next_page THEN << current_page + 1, current_page + 2 >> ELSE << >>

(* lines 107-127: the requests the handler of current_page yields *)
NextRequests(current_page, has_next_page) ==
    IF has_next_page THEN << current_page + 1 >> ELSE << >>

(* the output file of main, and the value of existing_data when none is loaded *)
NoFile == [ exists |-> FALSE, jobs |-> << >>, total_pages_crawled |-> 0 ]
Artifact(jobs, total_pages_crawled) ==
    [ exists |-> TRUE, jobs |-> jobs, total_pages_crawled |-> total_pages_crawled ]

(* main, lines 532-544: existing_data *)
LoadExisting(restart_from_page, file) ==
    IF restart_from_page > 1 /\ file.exists THEN file ELSE NoFile

(* main, lines 573-585: the global extraction_results before the crawl *)
InitialResults(existing_data) ==
    IF existing_data.exists THEN [ jobs |-> existing_data.jobs,
                                   total_pages_crawled |-> existing_data.total_pages_crawled ]
    ELSE [ jobs |-> << >>, total_pages_crawled |-> 0 ]

(* __init__ and start_requests: the spider before its first page *)
NewSpider(restart_from_page, existing_data) ==
    [ requested |-> << restart_from_page >>,
      pending |-> << restart_from_page >>,
      job_urls |-> IF existing_data.exists THEN existing_data.jobs ELSE << >>,
      unique_urls |-> IF existing_data.exists THEN UrlsOf(existing_data.jobs) ELSE {},
      pages_crawled |-> IF existing_data.exists THEN existing_data.total_pages_crawled ELSE 0 ]

(* the artifact an earlier crawl of one page left *)
EarlierArtifact == Artifact(<< Stub(StubUrlOne, << "a" >>, 1) >>, 1)

(* __init__ and start_requests: a fresh crawl from page 1, or a crawl      *)
(* restarted from page 2, with the stubs of the earlier crawl if its       *)
(* output file is there                                                    *)
StartOfCrawl ==
    /\ pagination_enabled \in BOOLEAN
    /\ \E restart_from_page \in { 1, 2 } :
       \E file \in (IF restart_from_page > 1 THEN { NoFile, EarlierArtifact } ELSE { NoFile }) :
          LET spider == NewSpider(restart_from_page, LoadExisting(restart_from_page, file))
          IN  /\ requested = spider.requested
              /\ pending = spider.pending
              /\ job_urls = spider.job_urls
              /\ unique_urls = spider.unique_urls
              /\ pages_crawled = spider.pages_crawled
              /\ extraction_results = InitialResults(LoadExisting(restart_from_page, file))
              /\ output_file = file
    /\ empty_pages_count = 0
    /\ page_log = << >>
    /\ runs = << >>
    /\ cpc = "crawl"
    /\ validation_config = CfgNoPattern
    /\ ValidateIdle /\ ProcessIdle /\ FetchIdle /\ BatchIdle /\ ExtractIdle /\ FilesIdle

(* a crawl of a site about which nothing is assumed *)
InitCrawl == StartOfCrawl /\ UnitIdle

PageEntry(current_page, probe, has_next_page, requested_next, page_jobs, new_jobs_count,
          status) ==
    [ page |-> current_page, probe |-> probe, has_next_page |-> has_next_page,
      requested_next |-> requested_next, page_jobs |-> page_jobs,
      new_jobs_count |-> new_jobs_count, status |-> status ]

(* lines 79-177: the handler of the answered request at the head of        *)
(* pending.  handler: "ok", "no_page" (line 84 raises) or "delay_raises"   *)
(* (line 112 raises); extraction: "ok" or "raises" (line 134)              *)
Parse(handler, probe, extraction, listing) ==
    /\ cpc = "crawl"
    /\ pending # << >>
    /\ Head(pending) <= MaxPage
    /\ LET current_page == Head(pending)
           called == IF pagination_enabled THEN probe ELSE ProbeNotCalled
           has_next_page == HasNextPage(pagination_enabled, probe)
           page_jobs == IF extraction = "raises" THEN << >>
                        ELSE ExtractJobsFromPage(listing, current_page)
           frontier == AddUnique(Frontier(job_urls, unique_urls), page_jobs, 1)
       IN  IF handler = "no_page"
           THEN /\ pending' = Tail(pending)
                /\ page_log' = Append(page_log,
                        PageEntry(current_page, ProbeNotCalled, FALSE, FALSE, << >>, 0, "critical"))
                /\ UNCHANGED << requested, job_urls, unique_urls, empty_pages_count,
                                pages_crawled, extraction_results >>
           ELSE IF has_next_page /\ handler = "delay_raises"
           THEN /\ pending' = Tail(pending)
                /\ page_log' = Append(page_log,
                        PageEntry(current_page, called, TRUE, FALSE, << >>, 0, "critical"))
                /\ UNCHANGED << requested, job_urls, unique_urls, empty_pages_count,
                                pages_crawled, extraction_results >>
           ELSE /\ requested' = requested \o NextRequests(current_page, has_next_page)
                /\ pending' = Tail(pending) \o NextRequests(current_page, has_next_page)
                /\ job_urls' = frontier.job_urls
                /\ unique_urls' = frontier.unique_urls
                /\ empty_pages_count' = IF Len(page_jobs) = 0 THEN empty_pages_count + 1 ELSE 0
                /\ pages_crawled' = pages_crawled + 1
                /\ extraction_results' = [ jobs |-> frontier.job_urls,
                                           total_pages_crawled |-> pages_crawled + 1 ]
                /\ page_log' = Append(page_log,
                        PageEntry(current_page, called, has_next_page, has_next_page, page_jobs,
                                  Len(frontier.job_urls) - Len(job_urls), "ok"))
    /\ UNCHANGED << pagination_enabled, cpc, output_file, runs, unit_vars, validation_config,
                    validate_vars, process_vars, fetch_vars, batch_vars, extract_vars,
                    files_vars >>

(* the download of the requested page fails: the engine drops the request  *)
(* and parse is not called for it                                          *)
RequestFails ==
    /\ cpc = "crawl"
    /\ pending # << >>
    /\ pending' = Tail(pending)
    /\ UNCHANGED << pagination_enabled, requested, job_urls, unique_urls, empty_pages_count,
                    pages_crawled, page_log, cpc, extraction_results, output_file, runs,
                    unit_vars, validation_config, validate_vars,
                    process_vars, fetch_vars, batch_vars, extract_vars, files_vars >>

(* no request is left: the engine closes the spider *)
CloseSpider ==
    /\ cpc = "crawl"
    /\ pending = << >>
    /\ cpc' = "closed"
    /\ UNCHANGED << pagination_enabled, requested, pending, job_urls, unique_urls,
                    empty_pages_count, pages_crawled, page_log, extraction_results,
                    output_file, runs, unit_vars, validation_config,
                    validate_vars, process_vars, fetch_vars, batch_vars, extract_vars,
                    files_vars >>

NextCrawl ==
    \/ \E handler \in { "ok", "no_page", "delay_raises" }, probe \in Probes,
          extraction \in { "ok", "raises" }, listing \in PageJobs :
            Parse(handler, probe, extraction, listing)
    \/ RequestFails
    \/ CloseSpider

SpecCrawl == InitCrawl /\ [][NextCrawl]_vars

SpecCrawlLive == InitCrawl /\ [][NextCrawl]_vars /\ WF_vars(NextCrawl)

---------------------------------------------------------------------------
(* Properties of the crawl (SpecCrawl, SpecCrawlLive) *)

(* no page after page n was ever requested *)
NothingRequestedAfter(n) == \A r \in Range(requested) : r <= n

(* the handler of entry k ran to its end and its check (or the disabled    *)
(* pagination) said that there is no next page                             *)
ReportsNoNext(k) ==
    /\ page_log[k].status = "ok"
    /\ page_log[k].probe \in { ProbeNotCalled, ProbeDisabled, ProbeAriaDisabled }

(* C18: when the next-page check of page N reports no next page, or        *)
(* pagination is disabled, no page after N is ever requested, the stubs of *)
(* page N are in the frontier, and the crawl ends.                         *)
C18_NoNextPageEndsCrawl ==
    /\ [](\A k \in 1..Len(page_log) :
            ReportsNoNext(k) =>
                /\ NothingRequestedAfter(page_log[k].page)
                /\ k = Len(page_log)
                /\ pending = << >>
                /\ UrlsOf(page_log[k].page_jobs) \subseteq UrlsOf(job_urls))
    /\ (\E k \in 1..Len(page_log) : ReportsNoNext(k)) ~> (cpc = "closed")

(* page 1 has a next page, page 2 has a disabled next control and stubs *)
C18_Witness ==
    /\ cpc = "closed"
    /\ requested = << 1, 2 >>
    /\ Len(page_log) = 2
    /\ page_log[1].requested_next
    /\ page_log[2].probe = ProbeDisabled
    /\ UrlsOf(page_log[2].page_jobs) = { StubUrlOne }
    /\ StubUrlOne \in UrlsOf(job_urls)

(* C19: once max_empty_pages consecutive pages have yielded no new stub,   *)
(* no page after the last of them is requested, whatever the next-page     *)
(* check says.                                                             *)
C19_StopsAfterEmptyPages ==
    \A k \in max_empty_pages..Len(page_log) :
        (\A j \in (k - max_empty_pages + 1)..k : page_log[j].new_jobs_count = 0) =>
            NothingRequestedAfter(page_log[k].page)

(* the detection of entry k failed: the wait timed out, the control was    *)
(* not found, or a call of the check raised                                *)
DetectionFailed(k) == page_log[k].probe \in { ProbeTimeout, ProbeNotFound, ProbeRaises }

(* C20: a failed next-page detection counts as "no next page": the handler *)
(* ends without an error, requests no further page and still collects the  *)
(* stubs of its page, and nothing is left to fetch.                        *)
C20_DetectionFailureIsNoNextPage ==
    \A k \in 1..Len(page_log) :
        DetectionFailed(k) =>
            /\ page_log[k].status = "ok"
            /\ ~page_log[k].requested_next
            /\ NothingRequestedAfter(page_log[k].page)
            /\ UrlsOf(page_log[k].page_jobs) \subseteq unique_urls
            /\ UrlsOf(page_log[k].page_jobs) \subseteq UrlsOf(job_urls)
            /\ k = Len(page_log)
            /\ pending = << >>

(* the wait for the next control times out on page 2, which has stubs *)
C20_Witness ==
    /\ cpc = "closed"
    /\ Len(page_log) = 2
    /\ page_log[2].probe = ProbeTimeout
    /\ page_log[2].page_jobs # << >>
    /\ page_log[2].new_jobs_count > 0
    /\ requested = << 1, 2 >>

(* the positions (k, i) of the stubs that stub extraction returned on the  *)
(* processed pages, in the order they were returned                        *)
Returned ==
    UNION { { << k, i >> : i \in 1..Len(page_log[k].page_jobs) } : k \in 1..Len(page_log) }
ReturnedStub(pos) == page_log[pos[1]].page_jobs[pos[2]]
Earlier(pos, other) == pos[1] < other[1] \/ (pos[1] = other[1] /\ pos[2] < other[2])

(* the stub was the first one returned with its URL in this crawl *)
FirstReturned(stub) ==
    \E pos \in Returned :
        /\ ReturnedStub(pos) = stub
        /\ \A other \in Returned :
              ReturnedStub(other).url = stub.url => ~Earlier(other, pos)

(* the stub came with the data of the earlier crawl *)
FromEarlierCrawl(stub) == \A pos \in Returned : ReturnedStub(pos) # stub

(* C22: the stub list holds no two stubs with the same URL, the unique-URL *)
(* set is the set of the URLs of the list, and the list holds one stub,    *)
(* the first seen, for every URL that stub extraction returned on a        *)
(* processed page, in a fresh and in a resumed crawl.                      *)
C22_OneStubPerUrl ==
    /\ \A i, j \in 1..Len(job_urls) : job_urls[i].url = job_urls[j].url => i = j
    /\ unique_urls = UrlsOf(job_urls)
    /\ \A pos \in Returned : ReturnedStub(pos).url \in UrlsOf(job_urls)
    /\ \A j \in 1..Len(job_urls) : FromEarlierCrawl(job_urls[j]) \/ FirstReturned(job_urls[j])

(* a resumed crawl whose page 2 returns the resumed URL between two stubs  *)
(* of another URL                                                          *)
C22_Witness ==
    /\ cpc = "closed"
    /\ Len(page_log) = 1
    /\ page_log[1].page = 2
    /\ Len(page_log[1].page_jobs) = 3
    /\ job_urls = << Stub(StubUrlOne, << "a" >>, 1), Stub(StubUrlTwo, << "a" >>, 2) >>
    /\ unique_urls = { StubUrlOne, StubUrlTwo }

(* C23: pages are requested one at a time in consecutive increasing order  *)
(* from the start page: page N+1 is requested only by the handler of the   *)
(* fetched page N, after its next-page check reported a next page; a       *)
(* handler issues at most one follow-up request, and at most one page      *)
(* request is outstanding at any time.                                     *)
C23_OnePageAtATime ==
    /\ \A i \in 1..Len(requested) : requested[i] = requested[1] + i - 1
    /\ \A i \in 2..Len(requested) :
          \E k \in 1..Len(page_log) :
              /\ page_log[k].page = requested[i] - 1
              /\ page_log[k].probe = ProbeEnabled
              /\ page_log[k].has_next_page
    /\ Len(requested) = 1 + Cardinality({ k \in 1..Len(page_log) : page_log[k].requested_next })
    /\ Len(pending) <= 1
    /\ \A i \in 1..Len(pending) : pending[i] = requested[Len(requested)]

(* pages 1 and 2 each report a next page, page 3 is requested and fetched *)
C23_Witness ==
    /\ requested = << 1, 2, 3 >>
    /\ Len(page_log) = 3
    /\ page_log[1].requested_next /\ page_log[2].requested_next
    /\ ~page_log[3].requested_next
    /\ pending = << >>

---------------------------------------------------------------------------
(* JobUrlSpider._build_page_url (crawler/url_fetcher.py)                   *)

MaxParams == 2

DecimalDigits == << "0", "1", "2", "3", "4", "5", "6", "7", "8", "9" >>

(* str(n) of a natural number *)
RECURSIVE StrOfInt(_)
StrOfInt(n) ==
    IF n < 10 THEN << DecimalDigits[n + 1] >>
    ELSE StrOfInt(n \div 10) \o << DecimalDigits[(n % 10) + 1] >>

(* str.split(sep) on a one-character separator *)
RECURSIVE SplitOn(_, _)
SplitOn(t, sep) ==
    LET k == FirstOf(t, { sep }, 1)
    IN  IF k > Len(t) THEN << t >>
        ELSE << SubSeq(t, 1, k - 1) >> \o SplitOn(SubSeq(t, k + 1, Len(t)), sep)

(* sep.join(parts) *)
RECURSIVE JoinWith(_, _)
JoinWith(parts, sep) ==
    IF parts = << >> THEN EmptyStr
    ELSE IF Len(parts) = 1 THEN parts[1]
    ELSE parts[1] \o << sep >> \o JoinWith(Tail(parts), sep)

(* urlparse(url).query of a URL without a scheme, ";" and "#" *)
UrlQuery(u) ==
    LET q == FirstOf(u, { "?" }, NetlocEnd(u))
    IN  IF q > Len(u) THEN EmptyStr ELSE SubSeq(u, q + 1, Len(u))

(* the pairs parse_qsl(query) keeps: an empty piece, a piece without "="   *)
(* and a piece with a blank value are dropped (keep_blank_values=False)    *)
RECURSIVE ParseQsl(_)
ParseQsl(pieces) ==
    IF pieces = << >> THEN << >>
    ELSE LET name_value == Head(pieces)
             eq == FirstOf(name_value, { "=" }, 1)
         IN  IF name_value = EmptyStr THEN ParseQsl(Tail(pieces))
             ELSE IF eq > Len(name_value) THEN ParseQsl(Tail(pieces))
             ELSE IF eq = Len(name_value) THEN ParseQsl(Tail(pieces))
             ELSE << [ name |-> SubSeq(name_value, 1, eq - 1),
                       value |-> SubSeq(name_value, eq + 1, Len(name_value)) ] >>
                  \o ParseQsl(Tail(pieces))

(* the position of the name among the keys of an ordered dict, 0 if absent *)
KeyIndex(d, name) ==
    IF \E k \in 1..Len(d) : d[k].name = name
    THEN CHOOSE k \in 1..Len(d) : d[k].name = name
    ELSE 0

(* parse_qs(query): name -> list of values, names in order of first       *)
(* appearance; a dict is a sequence of [name, values]                      *)
RECURSIVE GroupPairs(_, _)
GroupPairs(pairs, d) ==
    IF pairs = << >> THEN d
    ELSE LET pr == Head(pairs)
             k == KeyIndex(d, pr.name)
         IN  GroupPairs(Tail(pairs),
                 IF k = 0 THEN Append(d, [ name |-> pr.name, values |-> << pr.value >> ])
                 ELSE [ d EXCEPT ![k].values = Append(@, pr.value) ])

parse_qs(query) == GroupPairs(ParseQsl(SplitOn(query, "&")), << >>)

(* query_params[name] = values *)
SetItem(d, name, values) ==
    LET k == KeyIndex(d, name)
    IN  IF k = 0 THEN Append(d, [ name |-> name, values |-> values ])
        ELSE [ d EXCEPT ![k].values = values ]

(* urlencode(query_params, doseq=True) of names and values that need no    *)
(* percent-encoding                                                        *)
RECURSIVE EncodePairs(_)
EncodePairs(d) ==
    IF d = << >> THEN << >>
    ELSE [ i \in 1..Len(Head(d).values) |-> Head(d).name \o << "=" >> \o Head(d).values[i] ]
         \o EncodePairs(Tail(d))

urlencode(d) == JoinWith(EncodePairs(d), "&")

(* urlunparse of an empty scheme, params and fragment *)
urlunparse(netloc, path, query) ==
    (IF netloc # EmptyStr THEN << "/", "/" >> \o netloc ELSE EmptyStr)
    \o path
    \o (IF query # EmptyStr THEN << "?" >> \o query ELSE EmptyStr)

(* pagination_config.get("page_param", "page"): a one-letter name here *)
page_param == << "p" >>

build_page_url(home, n) ==
    LET query_params == parse_qs(UrlQuery(home))
    IN  IF n = 1 /\ KeyIndex(query_params, page_param) = 0 THEN home
        ELSE urlunparse(Netloc(home), UrlPath(home),
                        urlencode(SetItem(query_params, page_param, << StrOfInt(n) >>)))

(* the pieces a home URL's query is made of: the page parameter and one    *)
(* other parameter, each bare, blank or valued, and the empty piece        *)
QueryPieces ==
    { << "p" >>, << "p", "=" >>, << "p", "=", "1" >>,
      << "q" >>, << "q", "=" >>, << "q", "=", "a" >>, EmptyStr }

ParamLists == UNION { [ 1..n -> QueryPieces ] : n \in 0..MaxParams }

HomeUrls ==
    { prefix \o tail :
        prefix \in { << "/", "c" >>, << "/", "/", "h", "/", "c" >> },
        tail \in { EmptyStr } \cup { << "?" >> \o JoinWith(ps, "&") : ps \in ParamLists } }

InitPageUrl ==
    /\ home_url \in HomeUrls
    /\ page_number \in 1..MaxPage
    /\ page_url = << >>
    /\ upc = "call"
    /\ validation_config = CfgNoPattern
    /\ ValidateIdle /\ ProcessIdle /\ FetchIdle
    /\ BatchIdle /\ ExtractIdle /\ FilesIdle /\ CrawlIdle
    /\ SalaryIdle /\ ClassifyIdle /\ CommandIdle /\ SelectorIdle /\ SiteIdle /\ LinkIdle

BuildPageUrl ==
    /\ upc = "call"
    /\ page_url' = build_page_url(home_url, page_number)
    /\ upc' = "returned"
    /\ UNCHANGED << home_url, page_number, validation_config, validate_vars, process_vars,
                    fetch_vars, batch_vars, extract_vars, files_vars, crawl_vars,
                    salary_vars, classify_vars, command_vars, selector_vars, site_vars, link_vars >>

NextPageUrl == BuildPageUrl

SpecPageUrl == InitPageUrl /\ [][NextPageUrl]_vars

(* the query parameters a URL shows: every non-empty piece of its query,   *)
(* as a (name, value) pair; a bare name has the blank value                *)
ShownParams(u) ==
    LET pieces == SplitOn(UrlQuery(u), "&")
        PairOf(piece) ==
            LET eq == FirstOf(piece, { "=" }, 1)
            IN  << SubSeq(piece, 1, eq - 1), SubSeq(piece, eq + 1, Len(piece)) >>
    IN  { PairOf(pieces[i]) : i \in { j \in 1..Len(pieces) : pieces[j] # EmptyStr } }

OtherParams(u) == { pr \in ShownParams(u) : pr[1] # page_param }
PageParams(u) == { pr \in ShownParams(u) : pr[1] = page_param }

(* C21: page 1 of a home URL without the page parameter is the home URL    *)
(* unchanged; every other page URL is the home URL with the page parameter *)
(* set to the page number and every other query parameter, the path and    *)
(* the host preserved.                                                     *)
C21_PageUrlKeepsTheRest ==
    upc = "returned" =>
        IF page_number = 1 /\ PageParams(home_url) = {} THEN page_url = home_url
        ELSE /\ PageParams(page_url) = { << page_param, StrOfInt(page_number) >> }
             /\ OtherParams(page_url) = OtherParams(home_url)
             /\ UrlPath(page_url) = UrlPath(home_url)
             /\ Netloc(page_url) = Netloc(home_url)

---------------------------------------------------------------------------
(* main of crawler/url_fetcher.py: runs of the crawl on one output file    *)

MaxRuns == 2
MaxRunPages == 2

RunEntry(restart_from_page, before, after, ended) ==
    [ restart_from_page |-> restart_from_page, before |-> before, after |-> after,
      ended |-> ended ]

(* lines 599-606: process.start() has returned, the results are written *)
SaveResults ==
    /\ cpc = "closed"
    /\ output_file' = Artifact(extraction_results.jobs, extraction_results.total_pages_crawled)
    /\ runs' = Append(runs, RunEntry(requested[1], output_file,
                    Artifact(extraction_results.jobs, extraction_results.total_pages_crawled),
                    "saved"))
    /\ cpc' = "saved"
    /\ UNCHANGED << pagination_enabled, requested, pending, job_urls, unique_urls,
                    empty_pages_count, pages_crawled, page_log, extraction_results,
                    unit_vars, validation_config, validate_vars, process_vars, fetch_vars,
                    batch_vars, extract_vars, files_vars >>

(* the process is killed or crashes while the crawl is running *)
Kill ==
    /\ cpc = "crawl"
    /\ runs' = Append(runs, RunEntry(requested[1], output_file, output_file, "killed"))
    /\ cpc' = "killed"
    /\ UNCHANGED << pagination_enabled, requested, pending, job_urls, unique_urls,
                    empty_pages_count, pages_crawled, page_log, extraction_results,
                    output_file, unit_vars, validation_config, validate_vars, process_vars,
                    fetch_vars, batch_vars, extract_vars, files_vars >>

(* main is run again on the same output file (lines 528-597) *)
Rerun(restart_from_page) ==
    /\ cpc \in { "saved", "killed" }
    /\ Len(runs) < MaxRuns
    /\ LET existing_data == LoadExisting(restart_from_page, output_file)
           spider == NewSpider(restart_from_page, existing_data)
       IN  /\ requested' = spider.requested
           /\ pending' = spider.pending
           /\ job_urls' = spider.job_urls
           /\ unique_urls' = spider.unique_urls
           /\ pages_crawled' = spider.pages_crawled
           /\ extraction_results' = InitialResults(existing_data)
    /\ empty_pages_count' = 0
    /\ page_log' = << >>
    /\ cpc' = "crawl"
    /\ UNCHANGED << pagination_enabled, output_file, runs, unit_vars, validation_config,
                    validate_vars, process_vars, fetch_vars, batch_vars, extract_vars,
                    files_vars >>

NextMain ==
    \/ \E probe \in { ProbeEnabled, ProbeDisabled }, listing \in PageJobs :
          /\ pending # << >>
          /\ Head(pending) <= MaxRunPages
          /\ Parse("ok", probe, "ok", listing)
    \/ RequestFails
    \/ CloseSpider
    \/ SaveResults
    \/ Kill
    \/ \E restart_from_page \in 1..MaxRunPages : Rerun(restart_from_page)

SpecMain == InitCrawl /\ [][NextMain]_vars

(* C24: at any point after a page has been processed, the stored artifact  *)
(* holds every stub found on the pages processed so far, so that stopping  *)
(* or crashing the crawl loses none of them.                               *)
C24_ProcessedPagesAreStored ==
    \A k \in 1..Len(page_log) :
        page_log[k].status = "ok" =>
            UrlsOf(page_log[k].page_jobs) \subseteq UrlsOf(output_file.jobs)

(* the run was started on the artifact of a completed crawl, ran to its    *)
(* end and wrote its artifact                                              *)
CompletedRerun(n) == runs[n].ended = "saved" /\ runs[n].before.exists

KeepsUrlCount(n) ==
    Cardinality(UrlsOf(runs[n].after.jobs)) >= Cardinality(UrlsOf(runs[n].before.jobs))

(* C25: re-running a completed crawl from any restart page r with          *)
(* 1 <= r <= pages already crawled writes an artifact with at least as     *)
(* many unique job URLs as the previous artifact.                          *)
C25_RerunFromAnyPage ==
    \A n \in 1..Len(runs) :
        ( /\ CompletedRerun(n)
          /\ 1 <= runs[n].restart_from_page
          /\ runs[n].restart_from_page <= runs[n].before.total_pages_crawled )
        => KeepsUrlCount(n)

(* the same from a restart page r with 2 <= r <= pages already crawled,   *)
(* where main loads the previous artifact (line 534)                       *)
C25_RerunFromLaterPage ==
    \A n \in 1..Len(runs) :
        ( /\ CompletedRerun(n)
          /\ 2 <= runs[n].restart_from_page
          /\ runs[n].restart_from_page <= runs[n].before.total_pages_crawled )
        => KeepsUrlCount(n)

(* a crawl of pages 1 and 2 is re-run from page 2 and finds a new URL *)
RerunFromLaterPageHappens ==
    /\ cpc = "saved"
    /\ Len(runs) = 2
    /\ CompletedRerun(2)
    /\ runs[2].restart_from_page = 2
    /\ runs[2].before.total_pages_crawled = 2
    /\ UrlsOf(runs[2].before.jobs) = { StubUrlOne }
    /\ UrlsOf(runs[2].after.jobs) = { StubUrlOne, StubUrlTwo }
    /\ page_log # << >>

---------------------------------------------------------------------------
(* HTMLJobExtractor._extract_salary_info (processor/job_html_extractor.py) *)

MaxPayLen == 4

PayAlphabet == { "1", "2", ",", "-" }

RECURSIVE PayTextsUpTo(_)
PayTextsUpTo(n) ==
    IF n = 0 THEN { EmptyStr }
    ELSE LET shorter == PayTextsUpTo(n - 1)
         IN  shorter \cup
             { Append(t, c) : t \in { x \in shorter : Len(x) = n - 1 }, c \in PayAlphabet }

(* str.replace(",", "") *)
RemoveCommas(t) == SelectSeq(t, LAMBDA c : c # ",")

DigitValue(c) == CHOOSE d \in 0..9 : DecimalDigits[d + 1] = c

(* float(t) raises ValueError: t is empty or holds a character that is not *)
(* a digit (of the characters of PayAlphabet)                              *)
FloatRaises(t) == t = EmptyStr \/ \E i \in 1..Len(t) : t[i] \notin { "1", "2" }

(* float(t) of a string of digits *)
RECURSIVE Float(_)
Float(t) ==
    IF t = EmptyStr THEN 0
    ELSE 10 * Float(SubSeq(t, 1, Len(t) - 1)) + DigitValue(t[Len(t)])

(* the salary range patterns; groups 1 and 2 are named "1" and "2" *)
Amount == Plus(Cls({ "1", "2", "," }))                             \* [\d,]+
\* ([\d,]+)-([\d,]+)
RangePlain == Cat(Grp("1", Amount), Cat(Lit("-"), Grp("2", Amount)))
\* (\d+)-(\d+)?
RangeOptionalMax ==
    Cat(Grp("1", Plus(Cls(Digits))), Cat(Lit("-"), Opt(Grp("2", Plus(Cls(Digits))))))
\* (\d+)-\d+
RangeOneGroup == Cat(Grp("1", Plus(Cls(Digits))), Cat(Lit("-"), Plus(Cls(Digits))))
(* salary_patterns without the key "salary_range_pattern" *)
NoRangePattern == Eps

RangePatterns == { RangePlain, RangeOptionalMax, RangeOneGroup, NoRangePattern }

SalaryRaised == [ raised |-> TRUE, result |-> EmptyDict ]
SalaryResult(result) == [ raised |-> FALSE, result |-> result ]

(* lines 259-292, the salary range part.  A group that took no part in the *)
(* match is None, and None.replace raises AttributeError, which the        *)
(* function does not catch.                                                *)
extract_salary_info(text, pattern) ==
    IF text = EmptyStr THEN SalaryResult(EmptyDict)
    ELSE IF pattern = NoRangePattern THEN SalaryResult(EmptyDict)
    ELSE LET match == ValidMatchSearch(pattern, text)
         IN  IF match = << >> THEN SalaryResult(EmptyDict)
             ELSE LET groups == match[1][2]
                  IN  IF groups["1"] = None THEN SalaryRaised
                      ELSE IF FloatRaises(RemoveCommas(groups["1"])) THEN SalaryResult(EmptyDict)
                      ELSE IF "2" \notin DOMAIN groups THEN SalaryResult(EmptyDict)
                      ELSE IF groups["2"] = None THEN SalaryRaised
                      ELSE IF FloatRaises(RemoveCommas(groups["2"])) THEN SalaryResult(EmptyDict)
                      ELSE SalaryResult(
                              DictSet(DictSet(EmptyDict, "salary_min",
                                              Float(RemoveCommas(groups["1"]))),
                                      "salary_max", Float(RemoveCommas(groups["2"]))))

InitSalary ==
    /\ pay_text \in PayTextsUpTo(MaxPayLen)
    /\ range_pattern \in RangePatterns
    /\ salary_data = NoSalary
    /\ spc = "call"
    /\ validation_config = CfgNoPattern
    /\ ValidateIdle /\ ProcessIdle /\ FetchIdle
    /\ BatchIdle /\ ExtractIdle /\ FilesIdle /\ CrawlIdle
    /\ PageUrlIdle /\ ClassifyIdle /\ CommandIdle /\ SelectorIdle /\ SiteIdle /\ LinkIdle

ExtractSalaryInfo ==
    /\ spc = "call"
    /\ salary_data' = extract_salary_info(pay_text, range_pattern)
    /\ spc' = "returned"
    /\ UNCHANGED << pay_text, range_pattern, validation_config, validate_vars, process_vars,
                    fetch_vars, batch_vars, extract_vars, files_vars, crawl_vars,
                    pageurl_vars, classify_vars, command_vars, selector_vars, site_vars, link_vars >>

NextSalary == ExtractSalaryInfo

SpecSalary == InitSalary /\ [][NextSalary]_vars

(* C26: whatever the pay text and the salary range pattern, a record that  *)
(* is emitted has salary_min and salary_max both unset, or both set with   *)
(* salary_min <= salary_max.                                               *)
C26_SalaryRangeIsConsistent ==
    (spc = "returned" /\ ~salary_data.raised) =>
        LET result == salary_data.result
        IN  /\ "salary_min" \in DOMAIN result <=> "salary_max" \in DOMAIN result
            /\ "salary_min" \in DOMAIN result =>
                  result["salary_min"] <= result["salary_max"]

---------------------------------------------------------------------------
(* HTMLJobExtractor._determine_experience_level, _determine_job_type,      *)
(* _determine_work_arrangement (processor/job_html_extractor.py) and       *)
(* JobPosting.from_dict (models/job_posting.py)                            *)

MaxScanLen == 2

(* the values of the enumerations of models/job_posting.py *)
JobType ==
    { "full_time", "part_time", "contract", "temporary", "internship", "freelance",
      "volunteer" }
ExperienceLevel ==
    { "entry_level", "associate", "mid_level", "senior_level", "director", "executive",
      "internship", "not_applicable" }
WorkArrangement == { "on_site", "remote", "hybrid" }

ScanAlphabet == { "a", "B", " " }

RECURSIVE ScanTextsUpTo(_)
ScanTextsUpTo(n) ==
    IF n = 0 THEN { EmptyStr }
    ELSE LET shorter == ScanTextsUpTo(n - 1)
         IN  shorter \cup
             { Append(t, c) : t \in { x \in shorter : Len(x) = n - 1 }, c \in ScanAlphabet }

(* a pattern compiled with re.IGNORECASE: every class also holds the other *)
(* case of its letters                                                     *)
RECURSIVE IgnoreCase(_)
IgnoreCase(r) ==
    CASE r.t = "cls"  -> Cls(r.s \cup { ToLower(c) : c \in r.s } \cup { ToUpper(c) : c \in r.s })
      [] r.t = "cat"  -> Cat(IgnoreCase(r.a), IgnoreCase(r.b))
      [] r.t = "alt"  -> Alt(IgnoreCase(r.a), IgnoreCase(r.b))
      [] r.t = "star" -> Star(IgnoreCase(r.a))
      [] r.t = "grp"  -> Grp(r.name, IgnoreCase(r.a))
      [] OTHER        -> r

(* for keyword in keywords: re.search(keyword, text, re.IGNORECASE) *)
AnyKeywordFound(keywords, text) ==
    \E k \in 1..Len(keywords) : ReSearch(IgnoreCase(keywords[k]), text)

(* Enum(name) does not raise ValueError *)
IsEnumValue(name, enumeration) == name \in enumeration

(* the category loop that lets a later matching category replace an        *)
(* earlier one                                                             *)
RECURSIVE DetermineLastMatch(_, _, _, _, _)
DetermineLastMatch(table, k, text, enumeration, default) ==
    IF k > Len(table) THEN default
    ELSE DetermineLastMatch(table, k + 1, text, enumeration,
            IF AnyKeywordFound(table[k].keywords, text)
               /\ IsEnumValue(table[k].category, enumeration)
            THEN table[k].category ELSE default)

(* the loops of lines 301-309, 316-324 and 331-339 from category k on:     *)
(* the first category with a keyword found in the text is returned, unless *)
(* Enum(category) raises ValueError, which moves on                        *)
RECURSIVE Determine(_, _, _, _, _)
Determine(table, k, text, enumeration, default) ==
    IF k > Len(table) THEN default
    ELSE IF AnyKeywordFound(table[k].keywords, text)
            /\ IsEnumValue(table[k].category, enumeration)
    THEN table[k].category
    ELSE Determine(table, k + 1, text, enumeration, default)

(* f"{title} {description}" *)
Combined(title, description) == title \o << " " >> \o description

determine_experience_level(title, description, pats) ==
    Determine(pats.experience_patterns, 1, StrLower(Combined(title, description)),
              ExperienceLevel, Unset)

determine_job_type(title, description, pats) ==
    Determine(pats.job_type_patterns, 1, StrLower(Combined(title, description)),
              JobType, "full_time")

determine_work_arrangement(description, pats) ==
    Determine(pats.work_arrangement_patterns, 1, StrLower(description), WorkArrangement, Unset)

(* the values a JSON document holds for a key: a string, null, or a value  *)
(* of another type, such as a number                                       *)
JsonString(text) == [ type |-> "str", value |-> text ]
JsonNull == [ type |-> "null", value |-> Unset ]
JsonNumber(text) == [ type |-> "int", value |-> text ]

(* JobPosting.from_dict, lines 183-199, for one of the three keys: a       *)
(* stored string becomes the member with that value, or None when there is *)
(* none; a value that is no string is passed to the constructor as it is;  *)
(* an absent key leaves the default None                                   *)
FromStored(data, key, enumeration) ==
    IF key \notin DOMAIN data THEN Unset
    ELSE IF data[key].type # "str" THEN data[key].value
    ELSE IF IsEnumValue(data[key].value, enumeration) THEN data[key].value
    ELSE Unset

from_dict(data) ==
    [ job_type |-> FromStored(data, "job_type", JobType),
      experience_level |-> FromStored(data, "experience_level", ExperienceLevel),
      work_arrangement |-> FromStored(data, "work_arrangement", WorkArrangement) ]

(* a keyword table of two categories (the keys of a dict, so two different *)
(* names): the first has the keyword b, the second the keywords aB and a   *)
Category(category, keywords) == [ category |-> category, keywords |-> keywords ]
Table(first, second) ==
    << Category(first, << Lit("b") >>),
       Category(second, << Cat(Lit("a"), Lit("B")), Lit("a") >>) >>

(* the category names the tables choose from: two members of each          *)
(* enumeration and a name that is no member                                *)
JobTypeNames == << "internship", "contract", "gig" >>
ExperienceNames == << "senior_level", "internship", "guru" >>
ArrangementNames == << "remote", "hybrid", "anywhere" >>

NoTables ==
    [ job_type_patterns |-> << >>, experience_patterns |-> << >>,
      work_arrangement_patterns |-> << >> ]

ClassPatterns ==
    { NoTables } \cup
    { [ job_type_patterns |-> Table(JobTypeNames[pr[1]], JobTypeNames[pr[2]]),
        experience_patterns |-> Table(ExperienceNames[pr[1]], ExperienceNames[pr[2]]),
        work_arrangement_patterns |-> Table(ArrangementNames[pr[1]], ArrangementNames[pr[2]]) ] :
      pr \in { ij \in (1..3) \X (1..3) : ij[1] # ij[2] } }

(* what a JSON file can hold for an enumeration field: null, the value of  *)
(* a member, another string, a number                                      *)
StoredValues == { JsonNull, JsonString("internship"), JsonString("Remote"), JsonNumber("5") }
StoredKeys == { "job_type", "experience_level", "work_arrangement" }
StoredData == UNION { [ keys -> StoredValues ] : keys \in SUBSET StoredKeys }

InitClassify ==
    /\ scan_title \in ScanTextsUpTo(MaxScanLen - 1)
    /\ scan_description \in ScanTextsUpTo(MaxScanLen)
    /\ scan_qualifications = << >>
    /\ class_patterns \in ClassPatterns
    /\ classified = Unclassified
    /\ stored = EmptyDict
    /\ loaded = Unclassified
    /\ kpc = "call"
    /\ validation_config = CfgNoPattern
    /\ ValidateIdle /\ ProcessIdle /\ FetchIdle
    /\ BatchIdle /\ ExtractIdle /\ FilesIdle /\ CrawlIdle
    /\ PageUrlIdle /\ SalaryIdle /\ CommandIdle /\ SelectorIdle /\ SiteIdle /\ LinkIdle

(* line 460: combined_quals, the required qualifications text, a space    *)
(* and the empty text of the preferred qualifications                      *)
CombinedQuals(required_quals_text) == required_quals_text \o << " " >>

(* lines 468-473: the description argument of _determine_experience_level  *)
(* and of _determine_work_arrangement                                      *)
DescriptionAndQuals(description, required_quals_text) ==
    description \o << " " >> \o CombinedQuals(required_quals_text)

(* lines 460-474 *)
Classify ==
    /\ kpc = "call"
    /\ classified' =
          [ job_type |-> determine_job_type(scan_title, scan_description, class_patterns),
            experience_level |->
                determine_experience_level(scan_title,
                    DescriptionAndQuals(scan_description, scan_qualifications), class_patterns),
            work_arrangement |->
                determine_work_arrangement(
                    DescriptionAndQuals(scan_description, scan_qualifications), class_patterns) ]
    /\ kpc' = "returned"
    /\ UNCHANGED << scan_title, scan_description, scan_qualifications, class_patterns, stored, loaded,
                    validation_config, validate_vars, process_vars,
                    fetch_vars, batch_vars, extract_vars, files_vars, crawl_vars,
                    pageurl_vars, salary_vars, command_vars, selector_vars, site_vars, link_vars >>

(* JobPosting.from_dict on stored data *)
FromDict(data) ==
    /\ kpc = "returned"
    /\ stored' = data
    /\ loaded' = from_dict(data)
    /\ kpc' = "loaded"
    /\ UNCHANGED << scan_title, scan_description, scan_qualifications, class_patterns, classified,
                    validation_config, validate_vars, process_vars,
                    fetch_vars, batch_vars, extract_vars, files_vars, crawl_vars,
                    pageurl_vars, salary_vars, command_vars, selector_vars, site_vars, link_vars >>

NextClassify ==
    \/ Classify
    \/ \E data \in StoredData : FromDict(data)

SpecClassify == InitClassify /\ [][NextClassify]_vars

MemberOrUnset(value, enumeration) == value = Unset \/ value \in enumeration

(* the table names a category that is no member of its enumeration *)
NamesNonMember(table, enumeration) ==
    \E k \in 1..Len(table) : table[k].category \notin enumeration

(* the three fields of the record the extractor emits *)
ClassifiedAreMembers ==
    kpc \in { "returned", "loaded" } =>
        /\ classified.job_type \in JobType
        /\ MemberOrUnset(classified.experience_level, ExperienceLevel)
        /\ MemberOrUnset(classified.work_arrangement, WorkArrangement)

(* the three fields of the record from_dict builds *)
LoadedAreMembers ==
    kpc = "loaded" =>
        /\ MemberOrUnset(loaded.job_type, JobType)
        /\ MemberOrUnset(loaded.experience_level, ExperienceLevel)
        /\ MemberOrUnset(loaded.work_arrangement, WorkArrangement)

(* the same for stored strings and nulls only *)
LoadedStringsAreMembers ==
    (kpc = "loaded" /\ \A key \in DOMAIN stored : stored[key].type \in { "str", "null" }) =>
        /\ MemberOrUnset(loaded.job_type, JobType)
        /\ MemberOrUnset(loaded.experience_level, ExperienceLevel)
        /\ MemberOrUnset(loaded.work_arrangement, WorkArrangement)
        /\ \A key \in DOMAIN stored : loaded[key] \in { stored[key].value, Unset }

(* C27: in every emitted record and in every record built by from_dict,    *)
(* job_type, experience_level and work_arrangement are each a member of    *)
(* their enumeration or unset, also when a table names a category outside  *)
(* the enumeration or a stored value is no value of the enumeration.       *)
C27_EnumerationsHoldMembersOnly == ClassifiedAreMembers /\ LoadedAreMembers

(* the texts the three classifications scan (lines 468-474, the            *)
(* qualification texts being empty)                                        *)
JobTypeText == Combined(scan_title, scan_description)
ExperienceText == Combined(scan_title, scan_description \o << " ", " " >>)
ArrangementText == scan_description \o << " ", " " >>

(* the positions of the categories with a keyword found in the text,       *)
(* letter case aside                                                       *)
Matching(table, text) == { k \in 1..Len(table) : AnyKeywordFound(table[k].keywords, text) }

First(positions) == CHOOSE k \in positions : \A other \in positions : k <= other

(* the first category of the table with a keyword found in the text *)
FirstCategory(table, text, default) ==
    IF Matching(table, text) = {} THEN default
    ELSE table[First(Matching(table, text))].category

(* the first such category among those that are members of the enumeration *)
FirstMember(table, text, enumeration, default) ==
    LET members == { k \in Matching(table, text) : table[k].category \in enumeration }
    IN  IF members = {} THEN default ELSE table[First(members)].category

(* C30 as stated: each classification is the first category, in table      *)
(* order, with a keyword pattern matching the scanned text; with no match  *)
(* the job type is full-time and the other two are unset.                  *)
C30_FirstCategoryWins ==
    kpc \in { "returned", "loaded" } =>
        /\ classified.job_type =
              FirstCategory(class_patterns.job_type_patterns, JobTypeText, "full_time")
        /\ classified.experience_level =
              FirstCategory(class_patterns.experience_patterns, ExperienceText, Unset)
        /\ classified.work_arrangement =
              FirstCategory(class_patterns.work_arrangement_patterns, ArrangementText, Unset)

(* C30 amended: each classification is the first category, in table order, *)
(* that is a member of the enumeration and has a keyword pattern matching  *)
(* the scanned text; when there is none the job type is full-time and the  *)
(* other two are unset.                                                    *)
C30_FirstMemberWins ==
    kpc \in { "returned", "loaded" } =>
        /\ classified.job_type =
              FirstMember(class_patterns.job_type_patterns, JobTypeText, JobType, "full_time")
        /\ classified.experience_level =
              FirstMember(class_patterns.experience_patterns, ExperienceText,
                          ExperienceLevel, Unset)
        /\ classified.work_arrangement =
              FirstMember(class_patterns.work_arrangement_patterns, ArrangementText,
                          WorkArrangement, Unset)

(* both categories are members and both have a keyword in the text "Ba":   *)
(* the first one is the result                                             *)
C30_Witness ==
    /\ kpc = "returned"
    /\ scan_title = EmptyStr
    /\ scan_description = << "B", "a" >>
    /\ class_patterns.job_type_patterns = Table("internship", "contract")
    /\ Matching(class_patterns.job_type_patterns, JobTypeText) = { 1, 2 }
    /\ classified.job_type = "internship"
    /\ classified.experience_level = "senior_level"
    /\ classified.work_arrangement = "remote"

---------------------------------------------------------------------------
(* The four commands: main of crawler/url_fetcher.py (crawl),              *)
(* crawler/post_processing_urls.py (validate), crawler/html_downloader.py  *)
(* (download) and processor/job_html_extractor.py (extract)                *)

Commands == { "crawl", "validate", "download", "extract" }

(* the YAML configuration: fine, no such file, not YAML, an empty          *)
(* document, or a mapping without the section the command needs; "none"    *)
(* for the command that takes no configuration                             *)
ConfigStates(c) ==
    IF c = "download" THEN { "none" }
    ELSE { "ok", "missing", "malformed", "empty", "no_section" }

(* the input file or directory: fine, not there, or not JSON; "none" for   *)
(* the command that takes no input                                         *)
InputStates(c) ==
    CASE c = "crawl" -> { "none" }
      [] c = "extract" -> { "ok", "missing" }
      [] OTHER -> { "ok", "missing", "unparsable" }

(* how the items of a readable input fare, one by one *)
ItemOutcomes == UNION { [ 1..n -> { "ok", "failed" } ] : n \in 0..MaxBatch }

Exit(status, wrote) == [ exit_status |-> status, wrote_output |-> wrote ]

SomeItemOk(items) == \E i \in 1..Len(items) : items[i] = "ok"

(* load_pattern_config of url_fetcher.py and post_processing_urls.py       *)
(* raises: ValueError for a YAML error or a missing required field,        *)
(* TypeError for an empty document                                         *)
LoadPatternConfigRaises(config) == config \in { "malformed", "empty", "no_section" }

(* url_fetcher.py main: click rejects a missing --pattern-yaml with status *)
(* 2; every exception ends in sys.exit(1) (lines 611-613); the output file *)
(* is written after the crawl (lines 599-606)                              *)
RunCrawl(config) ==
    IF config = "missing" THEN Exit(2, FALSE)
    ELSE IF LoadPatternConfigRaises(config) THEN Exit(1, FALSE)
    ELSE Exit(0, TRUE)

(* post_processing_urls.py main: click rejects a missing --url-file or     *)
(* --pattern-yaml; every exception ends in sys.exit(1) (lines 245-247)     *)
RunValidate(config, input) ==
    IF config = "missing" \/ input = "missing" THEN Exit(2, FALSE)
    ELSE IF LoadPatternConfigRaises(config) THEN Exit(1, FALSE)
    ELSE IF input = "unparsable" THEN Exit(1, FALSE)
    ELSE Exit(0, TRUE)

(* html_downloader.py main (lines 237-249) and process_urls_from_json: a   *)
(* source file that cannot be parsed is reported and the function returns  *)
(* (lines 139-144)                                                         *)
RunDownload(input, items) ==
    IF input = "missing" THEN Exit(1, FALSE)
    ELSE IF input = "unparsable" THEN Exit(0, FALSE)
    ELSE Exit(0, SomeItemOk(items))

(* job_html_extractor.py main (lines 724-739) and _load_patterns (lines    *)
(* 49-64): a configuration without the html_extraction section is used as  *)
(* it is, and without basic_info no file yields a record                   *)
RunExtract(config, input, items) ==
    IF input = "missing" THEN Exit(1, FALSE)
    ELSE IF config = "missing" THEN Exit(1, FALSE)
    ELSE IF config \in { "malformed", "empty" } THEN Exit(1, FALSE)
    ELSE IF config = "no_section" THEN Exit(0, FALSE)
    ELSE Exit(0, SomeItemOk(items))

RunCommand(c, config, input, items) ==
    CASE c = "crawl" -> RunCrawl(config)
      [] c = "validate" -> RunValidate(config, input)
      [] c = "download" -> RunDownload(input, items)
      [] c = "extract" -> RunExtract(config, input, items)

InitCommand ==
    /\ command \in Commands
    /\ config_file \in ConfigStates(command)
    /\ input_file \in InputStates(command)
    /\ item_outcomes \in ItemOutcomes
    /\ exit_status = 0
    /\ wrote_output = FALSE
    /\ mpc = "start"
    /\ validation_config = CfgNoPattern
    /\ ValidateIdle /\ ProcessIdle /\ FetchIdle
    /\ BatchIdle /\ ExtractIdle /\ FilesIdle /\ CrawlIdle
    /\ PageUrlIdle /\ SalaryIdle /\ ClassifyIdle /\ SelectorIdle /\ SiteIdle /\ LinkIdle

Run ==
    /\ mpc = "start"
    /\ exit_status' = RunCommand(command, config_file, input_file, item_outcomes).exit_status
    /\ wrote_output' = RunCommand(command, config_file, input_file, item_outcomes).wrote_output
    /\ mpc' = "exited"
    /\ UNCHANGED << command, config_file, input_file, item_outcomes,
                    validation_config, validate_vars, process_vars,
                    fetch_vars, batch_vars, extract_vars, files_vars, crawl_vars,
                    pageurl_vars, salary_vars, classify_vars, selector_vars, site_vars, link_vars >>

NextCommand == Run

SpecCommand == InitCommand /\ [][NextCommand]_vars

(* the configuration is missing, malformed or lacks a required section, or *)
(* the input is missing or cannot be parsed                                *)
UnrecoverableInput ==
    \/ config_file \in { "missing", "malformed", "empty", "no_section" }
    \/ input_file \in { "missing", "unparsable" }

(* C28: a command stops with a non-zero exit status and writes no output   *)
(* artifact when its configuration is missing, malformed or lacks a        *)
(* required top-level section, or when its input file is missing or cannot *)
(* be parsed; in every other case it exits with status zero.               *)
C28_ExitStatusTellsInputErrors ==
    mpc = "exited" =>
        IF UnrecoverableInput THEN exit_status # 0 /\ ~wrote_output
        ELSE exit_status = 0

---------------------------------------------------------------------------
(* _extract_with_selector on its own: one call on any document with a      *)
(* rule that names a primary selector and fallback selectors               *)

MaxFallbacks == 2

PrimarySelectors == { "", "id", "h1", "meta" }
FallbackTags == { "id", "h2" }

RECURSIVE FallbackLists(_)
FallbackLists(n) ==
    IF n = 0 THEN { << >> }
    ELSE LET shorter == FallbackLists(n - 1)
         IN  shorter \cup { Append(q, t) : q \in { f \in shorter : Len(f) = n - 1 },
                                           t \in FallbackTags }

(* rules as the YAML sections write them: selector, attribute,             *)
(* fallback_selectors, transform; one of them with a default as well, one  *)
(* with no selector at all                                                 *)
FieldRules ==
    { DictRule(selector, attribute, fallback_selectors, transform) :
        selector \in PrimarySelectors, attribute \in { "text", "content" },
        fallback_selectors \in FallbackLists(MaxFallbacks),
        transform \in { "", "digits_only" } }
    \cup { [ DictRule("h1", "text", << "h2" >>, "") EXCEPT !.has_default = TRUE,
                                                         !.default = << "C" >> ],
           DefaultRule(<< "C" >>) }


InitSelector ==
    /\ soup \in PagesUpTo(MaxNodes)
    /\ field_rule \in FieldRules
    /\ selected = None
    /\ lpc = "call"
    /\ validation_config = CfgNoPattern
    /\ ValidateIdle /\ ProcessIdle /\ FetchIdle
    /\ BatchIdle /\ ExtractIdle /\ FilesIdle /\ CrawlIdle
    /\ PageUrlIdle /\ SalaryIdle /\ ClassifyIdle /\ CommandIdle /\ SiteIdle /\ LinkIdle

(* lines 66-124 *)
Select ==
    /\ lpc = "call"
    /\ selected' = ExtractWithSelector(soup, field_rule, NoSourceUrl, PatPlain, QuietLib)
    /\ lpc' = "returned"
    /\ UNCHANGED << soup, field_rule, validation_config,
                    validate_vars, process_vars, fetch_vars, batch_vars, extract_vars,
                    files_vars, crawl_vars,
                    pageurl_vars, salary_vars, classify_vars, command_vars,
                    site_vars, link_vars >>

NextSelector == Select

SpecSelector == InitSelector /\ [][NextSelector]_vars

(* the selectors of a rule in the order they are consulted *)
Consulted(rule) == << rule.selector >> \o rule.fallback_selectors

(* the value of the element a selector picks, the first one in document    *)
(* order that carries the tag; None when it picks none                     *)
Picked(p, selector, attribute) ==
    IF selector = "" \/ SelectOne(p, selector) = 0 THEN None
    ELSE GetElementValue(p[SelectOne(p, selector)], attribute)

Yields(p, selector, attribute) ==
    Picked(p, selector, attribute) \notin { None, EmptyStr }

(* the positions, in Consulted, of the selectors that yield a value *)
Yielding(p, rule) ==
    { k \in 1..Len(Consulted(rule)) : Yields(p, Consulted(rule)[k], rule.attribute) }

Least(S) == CHOOSE k \in S : \A j \in S : k <= j

SelectorRule(rule) == rule.kind = "dict" /\ ~(rule.has_default /\ rule.selector = "")

(* C29: a rule with a primary selector and fallback selectors gives the    *)
(* transformed value of the first selector, primary first and then the     *)
(* fallbacks in order, whose element has a non-empty value, and gives no   *)
(* value when no selector has one                                          *)
C29_FirstYieldingSelectorDecides ==
    (lpc = "returned" /\ SelectorRule(field_rule)) =>
        IF Yielding(soup, field_rule) = { }
        THEN selected = None
        ELSE selected =
                ApplyTransform(Picked(soup, Consulted(field_rule)[Least(Yielding(soup, field_rule))],
                                      field_rule.attribute),
                               field_rule.transform, PatPlain)

(* the primary selector and the first fallback pick elements without a     *)
(* value and the second fallback decides                                   *)
C29_Witness ==
    /\ lpc = "returned"
    /\ SelectorRule(field_rule)
    /\ Len(field_rule.fallback_selectors) = 2
    /\ field_rule.selector # ""
    /\ SelectOne(soup, field_rule.selector) # 0
    /\ Least(Yielding(soup, field_rule) \cup { 4 }) = 3
    /\ selected # None

---------------------------------------------------------------------------
(* The reason download_html reports (SpecFetch) *)

LastOutcome == outcomes[Len(outcomes)]

(* C36: when download_html ends in failure, after the retries are used up  *)
(* or on a failure that is not retried, it returns None and the reason it  *)
(* reports is the one of the last attempt made                             *)
C36_ReasonOfLastAttempt ==
    (fpc = "done" /\ LastOutcome.kind # "ok") =>
        /\ returned = "None"
        /\ last_exception = << FailureReason(LastOutcome), LastOutcome.code >>

(* a timeout and a server error were retried and a client error ended it  *)
C36_Witness ==
    /\ fpc = "done"
    /\ returned = "None"
    /\ Len(outcomes) = 3
    /\ outcomes[1].kind = "timeout"
    /\ outcomes[2] = [ kind |-> "http", code |-> 503 ]
    /\ outcomes[3] = [ kind |-> "http", code |-> 404 ]
    /\ last_exception = << "HTTP", 404 >>

---------------------------------------------------------------------------
(* What a fetched page leaves behind (SpecDownload) *)

LastLogged == batch_log[Len(batch_log)]

(* the last job of the log went through download_html and the call is over *)
JustDownloaded ==
    /\ batch_log # << >>
    /\ LastLogged.what = "download"
    /\ bpc = "next"
    /\ fpc = "done"

(* C40: a job whose file did not exist has its file written and is counted *)
(* as successful exactly when download_html got a response, whatever its   *)
(* body; a fetch that failed writes no file and is counted as failed       *)
C40_SavedExactlyWhenFetched ==
    JustDownloaded =>
        /\ (returned = "content") <=> (LastLogged.wrote /\ LastLogged.counted = "success")
        /\ (returned = "None") => (~LastLogged.wrote /\ LastLogged.counted = "failed")

---------------------------------------------------------------------------
(* The order of the stub list and the empty-pages counter (SpecCrawl) *)

(* the position in the log of the handler that found the stub; 0 for a     *)
(* stub loaded from the file of an earlier crawl                           *)
DiscoveredAt(stub) ==
    IF FromEarlierCrawl(stub) THEN 0
    ELSE CHOOSE k \in 1..Len(page_log) :
            /\ \E pos \in Returned : pos[1] = k /\ ReturnedStub(pos) = stub
            /\ \A pos \in Returned : ReturnedStub(pos) = stub => pos[1] >= k

(* C35: the stub list is in page-visitation order: a stub that precedes    *)
(* another was found on a page processed no later, and the stubs loaded    *)
(* from the file of an earlier crawl precede every stub of this session    *)
C35_StubsInVisitationOrder ==
    \A i, j \in 1..Len(job_urls) :
        i < j => DiscoveredAt(job_urls[i]) <= DiscoveredAt(job_urls[j])

(* a resumed crawl: the loaded stub, then a stub of page 2 found there;    *)
(* page 3 repeats both URLs                                                *)
C35_Witness ==
    /\ Len(page_log) = 2
    /\ Len(job_urls) = 2
    /\ DiscoveredAt(job_urls[1]) = 0
    /\ DiscoveredAt(job_urls[2]) = 1
    /\ page_log[1].page = 2
    /\ Len(page_log[2].page_jobs) = 3

(* the handlers that ran to their end, in order *)
Processed == SelectSeq(page_log, LAMBDA entry : entry.status = "ok")

(* how many of the last entries of a log in a row brought no new stub *)
RECURSIVE NoNewRun(_)
NoNewRun(log) ==
    IF log = << >> THEN 0
    ELSE IF log[Len(log)].new_jobs_count # 0 THEN 0
    ELSE 1 + NoNewRun(SubSeq(log, 1, Len(log) - 1))

(* C37: after every processed page the empty-pages counter is the number   *)
(* of most recent processed pages in a row that brought no new stub: a     *)
(* page with a new stub resets it, a page that only repeats known URLs     *)
(* increments it                                                           *)
C37_CounterCountsPagesWithoutNewStubs ==
    empty_pages_count = NoNewRun(Processed)

---------------------------------------------------------------------------
(* Malformed numeric groups of the salary range (SpecSalary) *)

(* the salary range pattern matched the pay text *)
RangeMatched ==
    /\ pay_text # EmptyStr
    /\ range_pattern # NoRangePattern
    /\ ValidMatchSearch(range_pattern, pay_text) # << >>

(* the groups of that match *)
RangeGroups == ValidMatchSearch(range_pattern, pay_text)[1][2]

(* a group the pattern lacks, a group that took no part in the match, or   *)
(* text that float() rejects                                               *)
MalformedGroup(name) ==
    \/ name \notin DOMAIN RangeGroups
    \/ RangeGroups[name] = None
    \/ FloatRaises(RemoveCommas(RangeGroups[name]))

(* C32: when the salary range pattern matches the pay text and a numeric   *)
(* group is malformed or missing, the salary fields stay unset and no      *)
(* error leaves _extract_salary_info                                       *)
C32_MalformedGroupsAreDropped ==
    (spc = "returned" /\ RangeMatched /\ (MalformedGroup("1") \/ MalformedGroup("2"))) =>
        /\ ~salary_data.raised
        /\ salary_data.result = EmptyDict

(* supporting: a malformed group that did take part in the match is        *)
(* dropped without an error                                                *)
C32_MalformedTextIsDropped ==
    (spc = "returned" /\ RangeMatched /\ (MalformedGroup("1") \/ MalformedGroup("2"))
       /\ \A name \in DOMAIN RangeGroups : RangeGroups[name] # None) =>
        /\ ~salary_data.raised
        /\ salary_data.result = EmptyDict

---------------------------------------------------------------------------
(* SpecQualify: the three classifications of extract_job_posting on any    *)
(* title, description and qualifications text                              *)

InitQualify ==
    /\ scan_title \in ScanTextsUpTo(MaxScanLen - 1)
    /\ scan_description \in ScanTextsUpTo(MaxScanLen - 1)
    /\ scan_qualifications \in ScanTextsUpTo(MaxScanLen - 1)
    /\ class_patterns \in ClassPatterns
    /\ classified = Unclassified
    /\ stored = EmptyDict
    /\ loaded = Unclassified
    /\ kpc = "call"
    /\ validation_config = CfgNoPattern
    /\ ValidateIdle /\ ProcessIdle /\ FetchIdle
    /\ BatchIdle /\ ExtractIdle /\ FilesIdle /\ CrawlIdle
    /\ PageUrlIdle /\ SalaryIdle /\ CommandIdle /\ SelectorIdle /\ SiteIdle /\ LinkIdle

NextQualify == Classify

SpecQualify == InitQualify /\ [][NextQualify]_vars

(* the text made of title, description and qualifications *)
AllText ==
    StrLower(Combined(scan_title, DescriptionAndQuals(scan_description, scan_qualifications)))

(* C31: job type, experience level and work arrangement are each resolved  *)
(* against the same text made of title, description and qualifications, so *)
(* a keyword in any one of the three is seen by all three classifications  *)
C31_SameTextForAllThree ==
    kpc = "returned" =>
        /\ classified.job_type =
              Determine(class_patterns.job_type_patterns, 1, AllText, JobType, "full_time")
        /\ classified.experience_level =
              Determine(class_patterns.experience_patterns, 1, AllText, ExperienceLevel, Unset)
        /\ classified.work_arrangement =
              Determine(class_patterns.work_arrangement_patterns, 1, AllText,
                        WorkArrangement, Unset)

(* supporting: the experience level does see all three texts *)
C31_ExperienceSeesAllThree ==
    kpc = "returned" =>
        classified.experience_level =
            Determine(class_patterns.experience_patterns, 1, AllText, ExperienceLevel, Unset)

---------------------------------------------------------------------------
(* SpecLinks: _extract_jobs_from_page on one candidate link *)

MaxPieces == 2

(* lines 374-386 *)
exclude_patterns ==
    << << ".", "p", "d", "f" >>,
       << ".", "j", "p", "g" >>,
       << ".", "j", "p", "e", "g" >>,
       << ".", "p", "n", "g" >>,
       << ".", "g", "i", "f" >>,
       << "l", "o", "c", "a", "t", "i", "o", "n", "P", "i", "c", "k", "e", "r" >>,
       << "/", "a", "p", "p", "l", "y", "/" >>,
       << "/", "p", "r", "o", "f", "i", "l", "e", "/" >>,
       << "/", "s", "e", "a", "r", "c", "h" >>,
       << "/", "f", "i", "l", "t", "e", "r" >>,
       << "j", "a", "v", "a", "s", "c", "r", "i", "p", "t", ":" >>,
       << "m", "a", "i", "l", "t", "o", ":" >>,
       << "t", "e", "l", ":" >>,
       << "#" >> >>

(* lines 396-400 *)
job_patterns ==
    << << "/", "j", "o", "b", "/" >>,
       << "/", "j", "o", "b", "s", "/" >>,
       << "/", "c", "a", "r", "e", "e", "r", "/" >>,
       << "/", "c", "a", "r", "e", "e", "r", "s", "/" >>,
       << "/", "p", "o", "s", "i", "t", "i", "o", "n", "/" >>,
       << "/", "p", "o", "s", "i", "t", "i", "o", "n", "s", "/" >>,
       << "/", "o", "p", "e", "n", "i", "n", "g", "/" >>,
       << "/", "o", "p", "e", "n", "i", "n", "g", "s", "/" >>,
       << "/", "d", "e", "t", "a", "i", "l", "s", "/" >>,
       << "/", "l", "i", "s", "t", "i", "n", "g", "/" >>,
       << "/", "a", "p", "p", "l", "y" >> >>

AppleHost == << "j", "o", "b", "s", ".", "a", "p", "p", "l", "e", ".", "c", "o", "m" >>
DetailsPath == << "/", "d", "e", "t", "a", "i", "l", "s", "/" >>

(* lines 371-408: the entries of both lists are looked for, as written, in *)
(* the URL in lower case                                                   *)
is_job_url(full_url) ==
    LET url_lower == StrLower(full_url)
    IN  IF \E k \in 1..Len(exclude_patterns) : Contains(url_lower, exclude_patterns[k])
        THEN FALSE
        ELSE IF Contains(url_lower, AppleHost) /\ Contains(url_lower, DetailsPath) THEN TRUE
        ELSE \E k \in 1..Len(job_patterns) : Contains(url_lower, job_patterns[k])

(* self.home_url, and its scheme and host *)
CareersHome == << "h", "t", "t", "p", "s", ":", "/", "/", "h", "/", "c" >>
CareersOrigin == << "h", "t", "t", "p", "s", ":", "/", "/", "h" >>

(* urljoin(base, link) for a link that is an absolute path with no empty   *)
(* fragment: the scheme and host of base, then the link                    *)
urljoin(base, link) == IF base = CareersHome THEN CareersOrigin \o link ELSE link

(* what the attribute values of the links are made of *)
LinkPieces ==
    { << "j", "o", "b", "s", "/" >>,
      << "J", "O", "B", "S", "/" >>,
      << "x" >>,
      << "l", "o", "c", "a", "t", "i", "o", "n", "P", "i", "c", "k", "e", "r" >>,
      << "a", ".", "P", "D", "F" >>,
      << "#", "t" >>,
      << "a", "p", "p", "l", "y" >>,
      << "a", "p", "p", "l", "y", "/" >>,
      << "s", "e", "a", "r", "c", "h" >> }

RECURSIVE PathsUpTo(_)
PathsUpTo(n) ==
    IF n = 0 THEN { << >> }
    ELSE LET shorter == PathsUpTo(n - 1)
         IN  shorter \cup { q \o piece : q \in { r \in shorter : Len(r) > 0 \/ n = 1 },
                                         piece \in LinkPieces }

(* the attribute values: none, or an absolute path *)
Hrefs == { << >> } \cup { << "/" >> \o q : q \in PathsUpTo(MaxPieces) \ { << >> } }

InitLinks ==
    /\ href \in Hrefs
    /\ stubbed = FALSE
    /\ jpc = "call"
    /\ validation_config = CfgNoPattern
    /\ ValidateIdle /\ ProcessIdle /\ FetchIdle
    /\ BatchIdle /\ ExtractIdle /\ FilesIdle /\ CrawlIdle
    /\ PageUrlIdle /\ SalaryIdle /\ ClassifyIdle /\ CommandIdle /\ SelectorIdle /\ SiteIdle

(* lines 337-367 for one element: a stub is appended when the attribute    *)
(* has a value and the absolute URL passes _is_job_url                     *)
ExtractLink ==
    /\ jpc = "call"
    /\ stubbed' = (href # << >> /\ is_job_url(urljoin(CareersHome, href)))
    /\ jpc' = "returned"
    /\ UNCHANGED << href, validation_config, validate_vars, process_vars, fetch_vars,
                    batch_vars, extract_vars, files_vars, crawl_vars,
                    pageurl_vars, salary_vars, classify_vars, command_vars, selector_vars,
                    site_vars >>

NextLinks == ExtractLink

SpecLinks == InitLinks /\ [][NextLinks]_vars

(* the absolute URL of the link *)
FullUrl == urljoin(CareersHome, href)

(* one text contains the other, compared without regard to case *)
ContainsAnyCase(hay, needle) == Contains(StrLower(hay), StrLower(needle))

Excluded == \E k \in 1..Len(exclude_patterns) : ContainsAnyCase(FullUrl, exclude_patterns[k])
LooksLikeJob == \E k \in 1..Len(job_patterns) : ContainsAnyCase(FullUrl, job_patterns[k])

(* C34: a candidate link becomes a stub exactly when its absolute URL      *)
(* contains none of the exclude entries and at least one of the job-URL    *)
(* patterns, compared without regard to case; a URL with both is rejected  *)
C34_StubIffNotExcludedAndJobLike ==
    (jpc = "returned" /\ href # << >>) => (stubbed <=> (~Excluded /\ LooksLikeJob))

(* supporting: the same with the one exclude entry that has a capital      *)
(* letter left out of the list                                             *)
C34_ExceptForTheCapitalisedEntry ==
    (jpc = "returned" /\ href # << >>) =>
        (stubbed <=>
            /\ ~\E k \in 1..Len(exclude_patterns) :
                    /\ exclude_patterns[k] = StrLower(exclude_patterns[k])
                    /\ ContainsAnyCase(FullUrl, exclude_patterns[k])
            /\ LooksLikeJob)

---------------------------------------------------------------------------
(* SpecRequests: the URLs a crawl fetches, from start_requests on *)

(* home URLs that already carry a page number other than 1 *)
DeepHomes ==
    { << "/", "c", "?", "p", "=", "3" >>,
      << "/", "/", "h", "/", "c", "?", "q", "=", "a", "&", "p", "=", "2" >> }

InitRequests ==
    /\ home_url \in HomeUrls \cup DeepHomes
    /\ page_number = 0
    /\ page_url = << >>
    /\ upc = "start"
    /\ validation_config = CfgNoPattern
    /\ ValidateIdle /\ ProcessIdle /\ FetchIdle
    /\ BatchIdle /\ ExtractIdle /\ FilesIdle /\ CrawlIdle
    /\ SalaryIdle /\ ClassifyIdle /\ CommandIdle /\ SelectorIdle /\ SiteIdle /\ LinkIdle

(* lines 59-77: the first request, for page 1 or the restart page *)
StartRequests(restart_from_page) ==
    /\ upc = "start"
    /\ page_number' = restart_from_page
    /\ page_url' = IF restart_from_page > 1 THEN build_page_url(home_url, restart_from_page)
                   ELSE home_url
    /\ upc' = "fetching"
    /\ UNCHANGED << home_url, validation_config, validate_vars, process_vars,
                    fetch_vars, batch_vars, extract_vars, files_vars, crawl_vars,
                    salary_vars, classify_vars, command_vars, selector_vars, site_vars, link_vars >>

(* lines 107-127: the handler of the fetched page asks for the next one *)
RequestNextPage ==
    /\ upc = "fetching"
    /\ page_number < MaxPage
    /\ page_number' = page_number + 1
    /\ page_url' = build_page_url(home_url, page_number + 1)
    /\ UNCHANGED << home_url, upc, validation_config, validate_vars, process_vars,
                    fetch_vars, batch_vars, extract_vars, files_vars, crawl_vars,
                    salary_vars, classify_vars, command_vars, selector_vars, site_vars, link_vars >>

NextRequestsStep ==
    \/ \E restart_from_page \in 1..MaxRunPages : StartRequests(restart_from_page)
    \/ RequestNextPage

SpecRequests == InitRequests /\ [][NextRequestsStep]_vars

(* C38: the URL fetched for page n is the page URL built for n: its page   *)
(* parameter is n, except for page 1 of a home URL without a page          *)
(* parameter (one with a value, as parse_qs reads the query), also when    *)
(* the home URL carries another page number                                *)
C38_FetchedUrlIsPageUrl ==
    upc = "fetching" =>
        /\ page_url = build_page_url(home_url, page_number)
        /\ IF page_number = 1 /\ KeyIndex(parse_qs(UrlQuery(home_url)), page_param) = 0
           THEN page_url = home_url
           ELSE PageParams(page_url) = { << page_param, StrOfInt(page_number) >> }

(* supporting: every page after the first page of a fresh crawl is fetched *)
(* with its own number as the page parameter                               *)
C38_LaterPagesCarryTheirNumber ==
    (upc = "fetching" /\ page_number > 1) =>
        /\ page_url = build_page_url(home_url, page_number)
        /\ PageParams(page_url) = { << page_param, StrOfInt(page_number) >> }

---------------------------------------------------------------------------
(* SpecCrawlSite: the crawl of a given site, where every fetch and every   *)
(* wait returns.  The site says what its pages show: an endless site shows *)
(* an enabled next control and no job link on every page; other sites may  *)
(* show a result count ("1-2 of 5") or come with a configured max_pages.   *)

CountedSite == [ AnySite EXCEPT !.result_count = [ first |-> 1, last |-> 2, total |-> 5 ] ]
CappedSite  == [ AnySite EXCEPT !.max_pages = 3 ]
EndlessSite == [ AnySite EXCEPT !.endless = TRUE ]
Sites == { AnySite, CountedSite, CappedSite, EndlessSite }

InitCrawlSite ==
    /\ StartOfCrawl
    /\ site \in Sites
    /\ PageUrlIdle /\ SalaryIdle /\ ClassifyIdle /\ CommandIdle /\ SelectorIdle /\ LinkIdle

(* what a page of the site can show: anything on a site about which        *)
(* nothing is assumed, one job link on a counted or capped site            *)
SiteShows(probe, listing) ==
    /\ site.endless => (probe = ProbeEnabled /\ listing = << >>)
    /\ site \in { CountedSite, CappedSite } => listing = << Listing(StubUrlOne, << "a" >>) >>

(* a counter that stops counting two past the last page the model follows *)
CountOn(n) == IF n < MaxPage + 2 THEN n + 1 ELSE n

(* lines 79-177 for a page past the last page the model follows: the       *)
(* request at the head of pending stands for that page and, when the       *)
(* handler asks for a next page, for the page after it; the log and the    *)
(* list of requests are not continued                                      *)
ParseLater(probe, listing) ==
    /\ cpc = "crawl"
    /\ pending # << >>
    /\ Head(pending) > MaxPage
    /\ LET current_page == Head(pending)
           has_next_page == HasNextPage(pagination_enabled, probe)
           page_jobs == ExtractJobsFromPage(listing, current_page)
           frontier == AddUnique(Frontier(job_urls, unique_urls), page_jobs, 1)
       IN  /\ pending' = IF has_next_page THEN pending ELSE Tail(pending)
           /\ job_urls' = frontier.job_urls
           /\ unique_urls' = frontier.unique_urls
           /\ empty_pages_count' = IF Len(page_jobs) = 0 THEN CountOn(empty_pages_count) ELSE 0
           /\ pages_crawled' = CountOn(pages_crawled)
           /\ extraction_results' = [ jobs |-> frontier.job_urls,
                                      total_pages_crawled |-> CountOn(pages_crawled) ]
    /\ UNCHANGED << pagination_enabled, requested, page_log, cpc, output_file, runs,
                    unit_vars, validation_config, validate_vars, process_vars, fetch_vars,
                    batch_vars, extract_vars, files_vars >>

NextCrawlSite ==
    \/ \E probe \in Probes, listing \in PageJobs :
          SiteShows(probe, listing) /\ Parse("ok", probe, "ok", listing)
    \/ \E probe \in Probes, listing \in PageJobs :
          SiteShows(probe, listing) /\ ParseLater(probe, listing)
    \/ CloseSpider

(* the engine handles every answered request and closes the idle spider *)
SpecCrawlSite == InitCrawlSite /\ [][NextCrawlSite]_vars /\ WF_vars(NextCrawlSite)

(* _detect_pages_by_navigation, lines 241-248: the number of pages a       *)
(* result count "first-last of total" stands for                           *)
TotalPagesOf(result_count) ==
    LET results_per_page == result_count.last - result_count.first + 1
    IN  (result_count.total + results_per_page - 1) \div results_per_page

(* what the fallbacks say when the probe of the next control cannot        *)
(* decide: the result count first, then the configured page cap            *)
FallbackHasNext(current_page) ==
    IF site.result_count # NoCount THEN current_page < TotalPagesOf(site.result_count)
    ELSE IF site.max_pages > 0 THEN current_page < site.max_pages
    ELSE FALSE

(* C33: when the probe of the next control cannot decide, the handler      *)
(* falls back to the total page count of the result-count text, and when   *)
(* there is none to the configured page cap                                *)
C33_DetectionFallsBack ==
    \A k \in 1..Len(page_log) :
        (page_log[k].status = "ok" /\ DetectionFailed(k)) =>
            page_log[k].has_next_page = FallbackHasNext(page_log[k].page)

(* C39: when every fetch and every wait returns, the crawl reaches its     *)
(* terminal state on every site, also on a site whose next-page check      *)
(* always reports a next page while its pages hold no job stub             *)
C39_CrawlAlwaysEnds == <>(cpc = "closed")

(* supporting: the crawl does end once a page reports no next page *)
C39_EndsAfterLastPage ==
    (\E k \in 1..Len(page_log) : ReportsNoNext(k)) ~> (cpc = "closed")

====
